---- MODULE Spec2Model ----
(***************************************************************************)
(* Tesla-Wrap-Studio: the editor canvas' transform synchronizer            *)
(* (EditorCanvas, LineEndpointHandles), the project serializer             *)
(* (projectToBlob) and the export pipeline (exportPngAsDataUrl).           *)
(*                                                                         *)
(* Numbers that the code divides (scale factors, widths, heights) are      *)
(* exact rationals <<n, d>> with d > 0 in lowest terms; <<0, 0>> stands    *)
(* for JavaScript's undefined / NaN.  Positions, rotations and line points *)
(* are integers.  A layer is a record holding exactly the fields the       *)
(* layer object holds, so that `{...layer, ...updates}` is record merge.   *)
(***************************************************************************)
EXTENDS Integers, Sequences, FiniteSets, TLC

VARIABLES
    layers,                 \* useEditorStore().layers, most recent first
    selectedLayerId,        \* useEditorStore().selectedLayerId
    activeTool,             \* useEditorStore().activeTool
    transformStartDataRef,  \* EditorCanvas: transformStartDataRef.current
    gesture,                \* the pointer gesture Konva has in progress
    node,                   \* live attributes of the Konva node under the gesture
    startHandle,            \* LineEndpointHandles: start handle node position
    endHandle,              \* LineEndpointHandles: end handle node position
    isDraggingHandleRef,    \* LineEndpointHandles: isDraggingHandleRef.current
    nodeOpacity,            \* live opacity (percent) of each layer's Konva node
    cursor,                 \* stage.container().style.cursor
    gestures,               \* number of gestures started so far
    project,                \* the ProjectFile getSerializedState() returns
    clock,                  \* the wall clock new Date() reads
    archives,               \* the archives projectToBlob resolved with, in order
    blobError,              \* the last projectToBlob call rejected
    loaded,                 \* the project read back from an archive
    stage,                  \* the Konva stage handed to exportPngAsDataUrl
    exports,                \* the exportPngAsDataUrl calls made so far, in order
    posted,                 \* GodotViewer: the messages posted to the iframe, in order
    scene,                  \* what EditorCanvas renders: template, base color, layers
    frame,                  \* the Konva layer canvas after the last render
    currentModelId,         \* useEditorStore().currentModelId
    templateImage,          \* useEditorStore().templateImage, named by the model it shows
    templateDimensions,     \* useEditorStore().templateDimensions is set
    loads,                  \* the loadTemplate calls started so far, each with its state
    aiOpen,                 \* AIGeneratorDialog: isOpen
    aiState,                \* AIGeneratorDialog: state (GenerationState)
    adds,                   \* the handleAddToDesign calls started so far, each with its state
    generations,            \* the handleGenerate runs that set loading, each with its state
    storeState,             \* useEditorStore(): projectName, designId, saved marker, layers
    stageRef,               \* stageRef.current is a stage
    publishDialog,          \* PublishDialog: its useState values
    saveDialog,             \* SaveDialog: its useState values
    attempts,               \* the handlePublish and handleSave calls made so far
    pendingAdd,             \* a handleAddToDesign call is waiting for its image to decode
    backend,                \* Supabase: the uploads and inserts that succeeded, in order
    publishes,              \* the publishDesign calls made so far, each with its result
    assetFiles,             \* the files under src/assets/wraps when the app was built
    gltfCalls,              \* the getGltfUrl calls made so far, each with its result
    apiInput,               \* what the Replicate proxy answers to the requests of one call
    apiResult,              \* how that call of fetchWithRetry or pollPrediction ended
    viewer,                 \* GodotViewer: its props, refs, useState values and timers
    toGodot,                \* GodotViewer: the scene messages sendToGodot posted, in order
    localStorage,           \* localStorage: the item stored under STORAGE_KEY
    storageCalls            \* the calls of localStorageProject.ts made so far, in order

vars == <<layers, selectedLayerId, activeTool, transformStartDataRef, gesture, node,
          startHandle, endHandle, isDraggingHandleRef, nodeOpacity, cursor, gestures,
          project, clock, archives, blobError, loaded, stage, exports, posted, scene,
          frame, currentModelId, templateImage, templateDimensions, loads, aiOpen, aiState,
          adds, generations, storeState, stageRef, publishDialog, saveDialog, attempts, pendingAdd,
          backend, publishes, assetFiles, gltfCalls, apiInput, apiResult, viewer, toGodot,
          localStorage, storageCalls>>

\* A step of one part of the program (part: "canvas", "serializer", "export",
\* "compositor", "template", "ai", "dialog", "publish", "assets",
\* "replicate", "viewer" or "storage") leaves the other parts alone;
\* a step of the AI dialog may also add a layer to the canvas
Only(part) ==
    /\ IF part \in {"canvas", "ai"} THEN TRUE ELSE UNCHANGED layers
    /\ IF part = "canvas" THEN TRUE
       ELSE UNCHANGED <<selectedLayerId, activeTool, transformStartDataRef, gesture,
                        node, startHandle, endHandle, isDraggingHandleRef, nodeOpacity,
                        cursor, gestures>>
    /\ IF part = "serializer" THEN TRUE
       ELSE UNCHANGED <<project, clock, archives, blobError, loaded>>
    /\ IF part = "export" THEN TRUE ELSE UNCHANGED <<stage, exports, posted>>
    /\ IF part = "compositor" THEN TRUE ELSE UNCHANGED <<scene, frame>>
    /\ IF part = "template" THEN TRUE
       ELSE UNCHANGED <<currentModelId, templateImage, templateDimensions, loads>>
    /\ IF part = "ai" THEN TRUE ELSE UNCHANGED <<aiOpen, aiState, adds, generations>>
    /\ IF part = "dialog" THEN TRUE
       ELSE UNCHANGED <<storeState, stageRef, publishDialog, saveDialog, attempts,
                        pendingAdd>>
    /\ IF part = "publish" THEN TRUE ELSE UNCHANGED <<backend, publishes>>
    /\ IF part = "assets" THEN TRUE ELSE UNCHANGED <<assetFiles, gltfCalls>>
    /\ IF part = "replicate" THEN TRUE ELSE UNCHANGED <<apiInput, apiResult>>
    /\ IF part = "viewer" THEN TRUE ELSE UNCHANGED <<viewer, toGodot>>
    /\ IF part = "storage" THEN TRUE ELSE UNCHANGED <<localStorage, storageCalls>>

----------------------------------------------------------------------------
(* Bounds of the model.                                                    *)

MaxGestures == 2

MaxProjectLayers == 2

MaxBlobs == 2

MaxClock == 2

MaxNodes == 2

MaxExports == 2

MaxSceneLayers == 2

MaxRenders == 2

MaxLoads == 3

MaxAdds == 2

MaxOps == 2

MaxPublishes == 3

MaxLookups == 2

MaxRetries == 3

MaxGenerations == 2

MaxReady == 2

MaxTimers == 2

MaxSent == 3

MaxStorageCalls == 3

----------------------------------------------------------------------------
(* Exact rational arithmetic for the numbers the code multiplies and       *)
(* divides.                                                                *)

Null == "null"

AbsInt(i) == IF i < 0 THEN 0 - i ELSE i

RECURSIVE Gcd(_, _)
Gcd(a, b) == IF b = 0 THEN a ELSE Gcd(b, a % b)

\* undefined / NaN
Undefined == <<0, 0>>

IsNum(r) == r[2] # 0

Rat(n, d) ==
    IF d = 0 THEN Undefined
    ELSE LET g == Gcd(AbsInt(n), AbsInt(d))
             s == IF d < 0 THEN 0 - 1 ELSE 1
         IN  <<(s * n) \div g, (s * d) \div g>>

RMul(a, b) == IF IsNum(a) /\ IsNum(b) THEN Rat(a[1] * b[1], a[2] * b[2]) ELSE Undefined

\* x / 0 is +-Infinity or NaN in JavaScript; no finite number either way
RDiv(a, b) == IF IsNum(a) /\ IsNum(b) THEN Rat(a[1] * b[2], a[2] * b[1]) ELSE Undefined

\* Math.abs
MathAbs(a) == IF IsNum(a) THEN <<AbsInt(a[1]), a[2]>> ELSE Undefined

\* JavaScript `a || b` on numbers: 0, NaN and undefined are falsy
OrElse(a, b) == IF IsNum(a) /\ a[1] # 0 THEN a ELSE b

One == <<1, 1>>
Zero == <<0, 1>>

----------------------------------------------------------------------------
(* The layer model.                                                        *)

Kinds == {"text", "image", "texture", "brush", "line", "star", "rect", "circle", "fill"}

\* `(layer as any).width`: a field the object lacks reads as undefined
Get(l, f) == IF f \in DOMAIN l THEN l[f] ELSE Undefined

\* The fields every layer kind carries
BaseLayer(id, type, locked, opacity, scale) ==
    [id |-> id, type |-> type, visible |-> TRUE, locked |-> locked,
     opacity |-> opacity, x |-> 0, y |-> 0, rotation |-> 0,
     scaleX |-> scale, scaleY |-> scale]

\* The kind-specific extension of a layer: its intrinsic size fields
KindFields(type) ==
    CASE type = "rect"   -> [width |-> <<200, 1>>, height |-> <<100, 1>>]
      [] type = "circle" -> [radius |-> 50]
      [] type = "line"   -> [points |-> <<0, 0, 3, 4>>]
      [] type = "star"   -> [numPoints |-> 5, innerRadius |-> 20, outerRadius |-> 40]
      [] OTHER           -> [name |-> type]

\* `{ ...a, ...b }`
Spread(a, b) ==
    [f \in (DOMAIN a) \cup (DOMAIN b) |-> IF f \in DOMAIN b THEN b[f] ELSE a[f]]

NewLayer(id, type, locked, opacity, scale) ==
    Spread(BaseLayer(id, type, locked, opacity, scale), KindFields(type))

\* layers.find(l => l.id === layerId): the index of the layer, 0 when absent
Find(ls, id) ==
    IF \E i \in 1..Len(ls) : ls[i].id = id
    THEN CHOOSE i \in 1..Len(ls) : ls[i].id = id /\ \A j \in 1..(i - 1) : ls[j].id # id
    ELSE 0

\* The store's updateLayer(id, updates): merge the updates into that layer
updateLayer(ls, id, updates) ==
    [i \in 1..Len(ls) |-> IF ls[i].id = id THEN Spread(ls[i], updates) ELSE ls[i]]

----------------------------------------------------------------------------
(* Gesture inputs: what Konva reports for the node under the pointer.      *)

Pos(x, y) == [x |-> x, y |-> y]

PosSet == {Pos(0, 0), Pos(3, 4), Pos(0 - 2, 5)}

\* What a Transformer gesture can leave on the node: position, rotation and
\* scale (flipped, shrunk, stretched); it never collapses a node to scale 0
NodePose(x, y, r, sx, sy) ==
    [x |-> x, y |-> y, rotation |-> r, scaleX |-> sx, scaleY |-> sy]

TransformPoses ==
    {NodePose(0, 0, 0, Rat(2, 1), Rat(1, 2)),
     NodePose(3, 4, 45, Rat(0 - 1, 1), Rat(3, 1)),
     NodePose(0 - 2, 5, 0, Rat(1, 2), Rat(0 - 2, 1)),
     NodePose(3, 0, 90, One, One)}

NoGesture == [kind |-> "none"]

NoNode == [x |-> 0, y |-> 0, rotation |-> 0, scaleX |-> Undefined, scaleY |-> Undefined]

\* The attributes react-konva gives a layer's node from the layer's props
\* (Konva's default scale is 1)
NodeOf(l) ==
    [x |-> l.x, y |-> l.y, rotation |-> l.rotation,
     scaleX |-> OrElse(l.scaleX, One), scaleY |-> OrElse(l.scaleY, One)]

\* LineEndpointHandles: absolute positions of the endpoints on stage
StartPos(l) == Pos(l.points[1] + l.x, l.points[2] + l.y)
EndPos(l) == Pos(l.points[3] + l.x, l.points[4] + l.y)

\* LineEndpointHandles renders its two handles only for the selected line layer
HandlesShown(ls, sel) ==
    LET i == Find(ls, sel) IN i # 0 /\ ls[i].type = "line"

\* A handle node: unmounted, or mounted at a stage position
NoHandle == [x |-> 0, y |-> 0, mounted |-> FALSE]

HandleAt(p) == [x |-> p.x, y |-> p.y, mounted |-> TRUE]

\* The handles after a render: mounted at the endpoints, re-synchronised from
\* the store by the effect unless a handle is being dragged, unmounted otherwise
SyncHandle(ls, sel, dragging, current, which) ==
    IF ~HandlesShown(ls, sel) THEN NoHandle
    ELSE LET l == ls[Find(ls, sel)]
             p == IF which = "start" THEN StartPos(l) ELSE EndPos(l)
         IN  IF dragging # Null /\ current.mounted THEN current ELSE HandleAt(p)

Render(ls, sel, dragging) ==
    /\ startHandle' = SyncHandle(ls, sel, dragging, startHandle, "start")
    /\ endHandle' = SyncHandle(ls, sel, dragging, endHandle, "end")

----------------------------------------------------------------------------
(* Selection.                                                              *)

\* Mutant: a fill layer keeps its click handler while the fill tool is active
Clickable_FillAlways(l) == ~(l.type = "line" /\ l.locked)

\* commonProps.onClick; a fill layer is click-through while the fill tool is
\* active, and a locked line does not listen
Clickable(l) ==
    /\ ~(activeTool = "fill" /\ l.type = "fill")
    /\ ~(l.type = "line" /\ l.locked)

handleLayerClick(i) ==
    /\ Only("canvas")
    /\ gesture = NoGesture
    /\ Clickable(layers[i])
    /\ selectedLayerId # layers[i].id
    /\ selectedLayerId' = layers[i].id
    /\ Render(layers, layers[i].id, isDraggingHandleRef)
    /\ UNCHANGED <<layers, activeTool, transformStartDataRef, gesture, node,
                   isDraggingHandleRef, nodeOpacity, cursor, gestures>>

handleStageClick ==
    /\ Only("canvas")
    /\ gesture = NoGesture
    /\ activeTool = "select"
    /\ selectedLayerId # Null
    /\ selectedLayerId' = Null
    /\ Render(layers, Null, isDraggingHandleRef)
    /\ UNCHANGED <<layers, activeTool, transformStartDataRef, gesture, node,
                   isDraggingHandleRef, nodeOpacity, cursor, gestures>>

\* A click at a point where layer i is the topmost shape and layer `under`
\* (0: the empty stage) lies beneath it: Konva delivers the click to the
\* topmost listening shape, or to the stage
ClickAt(i, under) ==
    IF Clickable(layers[i]) THEN handleLayerClick(i)
    ELSE IF under # 0 /\ Clickable(layers[under]) THEN handleLayerClick(under)
    ELSE handleStageClick

----------------------------------------------------------------------------
(* Whole-layer drag: handleDragStart, Konva's drag, handleDragEnd.         *)

\* Mutant: the lock is not consulted
Draggable_IgnoresLock(l) == l.type # "brush" /\ activeTool # "fill"

\* commonProps.draggable
Draggable(l) == ~l.locked /\ l.type # "brush" /\ activeTool # "fill"

\* node.opacity(0.8), in percent
DragFeedbackOpacity == 80

\* node.opacity(layer?.opacity || 1), in percent
RestoredOpacity(ls, id) ==
    LET i == Find(ls, id) IN IF i # 0 /\ ls[i].opacity # 0 THEN ls[i].opacity ELSE 100

DragStart(i) ==
    /\ Only("canvas")
    /\ gesture = NoGesture
    /\ gestures < MaxGestures
    /\ Draggable(layers[i])
    /\ gesture' = [kind |-> "drag", id |-> layers[i].id]
    /\ node' = NodeOf(layers[i])
    /\ nodeOpacity' = [nodeOpacity EXCEPT ![layers[i].id] = DragFeedbackOpacity]
    /\ cursor' = "grabbing"
    /\ gestures' = gestures + 1
    /\ UNCHANGED <<layers, selectedLayerId, activeTool, transformStartDataRef,
                   startHandle, endHandle, isDraggingHandleRef>>

\* Mutant: the line node's dragmove is not listened to
handleLineDragMove_NotSubscribed(l, p) == UNCHANGED <<startHandle, endHandle>>

\* Konva moves the node with the pointer; the handles of a selected line
\* follow the node's live position (handleLineDragMove)
handleLineDragMove(l, p) ==
    IF selectedLayerId = l.id /\ l.type = "line" /\ startHandle.mounted /\ endHandle.mounted
    THEN /\ startHandle' = HandleAt(Pos(l.points[1] + p.x, l.points[2] + p.y))
         /\ endHandle' = HandleAt(Pos(l.points[3] + p.x, l.points[4] + p.y))
    ELSE UNCHANGED <<startHandle, endHandle>>

DragMove(p) ==
    /\ Only("canvas")
    /\ gesture.kind = "drag"
    /\ node' = [node EXCEPT !.x = p.x, !.y = p.y]
    /\ node' # node
    /\ handleLineDragMove(layers[Find(layers, gesture.id)], p)
    /\ UNCHANGED <<layers, selectedLayerId, activeTool, transformStartDataRef,
                   gesture, isDraggingHandleRef, nodeOpacity, cursor, gestures>>

\* Mutant: the drag feedback opacity of the node is persisted with the position
DragEndUpdates_PersistsFeedback(n) == [x |-> n.x, y |-> n.y, opacity |-> DragFeedbackOpacity]

\* updateLayer(layerId, { x: node.x(), y: node.y() })
DragEndUpdates(n) == [x |-> n.x, y |-> n.y]

handleDragEnd ==
    /\ Only("canvas")
    /\ gesture.kind = "drag"
    /\ layers' = updateLayer(layers, gesture.id, DragEndUpdates(node))
    /\ Render(layers', selectedLayerId, isDraggingHandleRef)
    /\ nodeOpacity' = [nodeOpacity EXCEPT ![gesture.id] = RestoredOpacity(layers, gesture.id)]
    /\ cursor' = "default"
    /\ gesture' = NoGesture
    /\ node' = NoNode
    /\ UNCHANGED <<selectedLayerId, activeTool, transformStartDataRef,
                   isDraggingHandleRef, gestures>>

----------------------------------------------------------------------------
(* Rotate / resize through the Transformer: handleTransformStart, Konva's  *)
(* transform, handleTransformEnd.                                          *)

NullStartData ==
    [layerId |-> Null, width |-> Undefined, height |-> Undefined,
     scaleX |-> Undefined, scaleY |-> Undefined]

\* TransformerWrapper attaches the Transformer to the selected layer; locked
\* layers and brush strokes are not transformable
TransformerAttached(l) ==
    selectedLayerId = l.id /\ ~l.locked /\ l.type # "brush"

\* Mutant: the snapshot is taken from the first layer of the project
StartData_OfFirstLayer(l) ==
    [layerId |-> layers[1].id, width |-> Get(layers[1], "width"),
     height |-> Get(layers[1], "height"),
     scaleX |-> OrElse(layers[1].scaleX, One), scaleY |-> OrElse(layers[1].scaleY, One)]

\* The snapshot handleTransformStart stores
StartData(l) ==
    [layerId |-> l.id, width |-> Get(l, "width"), height |-> Get(l, "height"),
     scaleX |-> OrElse(l.scaleX, One), scaleY |-> OrElse(l.scaleY, One)]

handleTransformStart(i) ==
    /\ Only("canvas")
    /\ gesture = NoGesture
    /\ gestures < MaxGestures
    /\ TransformerAttached(layers[i])
    /\ transformStartDataRef' = StartData(layers[i])
    /\ gesture' = [kind |-> "transform", id |-> layers[i].id, start |-> layers[i]]
    /\ node' = NodeOf(layers[i])
    /\ cursor' = "move"
    /\ gestures' = gestures + 1
    /\ UNCHANGED <<layers, selectedLayerId, activeTool, startHandle, endHandle,
                   isDraggingHandleRef, nodeOpacity>>

\* The Transformer rewrites the node's position, rotation and scale
TransformMove(pose) ==
    /\ Only("canvas")
    /\ gesture.kind = "transform"
    /\ node' = pose
    /\ node' # node
    /\ UNCHANGED <<layers, selectedLayerId, activeTool, transformStartDataRef,
                   gesture, startHandle, endHandle, isDraggingHandleRef, nodeOpacity, cursor, gestures>>

\* Mutant: the new size is taken from the node's scale alone, not relative to
\* the scale the layer had when the gesture started
TransformEndUpdates_IgnoresStartScale(l, n, startData) ==
    IF l.type = "rect" /\ startData # NullStartData
    THEN [x |-> n.x, y |-> n.y, rotation |-> n.rotation,
          width |-> MathAbs(RMul(OrElse(startData.width, Zero), n.scaleX)),
          height |-> MathAbs(RMul(OrElse(startData.height, Zero), n.scaleY)),
          scaleX |-> One, scaleY |-> One]
    ELSE [x |-> n.x, y |-> n.y, rotation |-> n.rotation,
          scaleX |-> n.scaleX, scaleY |-> n.scaleY]

\* Mutant: the rectangle branch is taken for every kind of layer
TransformEndUpdates_AnyKind(l, n, startData) ==
    IF startData # NullStartData
    THEN [x |-> n.x, y |-> n.y, rotation |-> n.rotation,
          width |-> MathAbs(RMul(OrElse(startData.width, Zero),
                                 RDiv(n.scaleX, startData.scaleX))),
          height |-> MathAbs(RMul(OrElse(startData.height, Zero),
                                  RDiv(n.scaleY, startData.scaleY))),
          scaleX |-> One, scaleY |-> One]
    ELSE [x |-> n.x, y |-> n.y, rotation |-> n.rotation,
          scaleX |-> n.scaleX, scaleY |-> n.scaleY]

\* The updates handleTransformEnd hands to updateLayer for layer l, given the
\* node at gesture end and the stored snapshot
TransformEndUpdates(l, n, startData) ==
    IF l.type = "rect" /\ startData # NullStartData
    THEN LET originalWidth == OrElse(startData.width, Zero)
             originalHeight == OrElse(startData.height, Zero)
             newWidth == MathAbs(RMul(originalWidth, RDiv(n.scaleX, startData.scaleX)))
             newHeight == MathAbs(RMul(originalHeight, RDiv(n.scaleY, startData.scaleY)))
         IN  [x |-> n.x, y |-> n.y, rotation |-> n.rotation,
              width |-> newWidth, height |-> newHeight,
              scaleX |-> One, scaleY |-> One]
    ELSE [x |-> n.x, y |-> n.y, rotation |-> n.rotation,
          scaleX |-> n.scaleX, scaleY |-> n.scaleY]

\* The store's deleteLayer(id) reaching the layer under the Transformer while
\* the gesture is in progress: the layer leaves the sequence and the selection
deleteLayer ==
    /\ Only("canvas")
    /\ gesture.kind = "transform"
    /\ Find(layers, gesture.id) # 0
    /\ layers' = SelectSeq(layers, LAMBDA l : l.id # gesture.id)
    /\ selectedLayerId' = IF selectedLayerId = gesture.id THEN Null ELSE selectedLayerId
    /\ Render(layers', selectedLayerId', isDraggingHandleRef)
    /\ UNCHANGED <<activeTool, transformStartDataRef, gesture, node, isDraggingHandleRef,
                   nodeOpacity, cursor, gestures>>

handleTransformEnd ==
    /\ Only("canvas")
    /\ gesture.kind = "transform"
    /\ LET i == Find(layers, gesture.id) IN
         IF i = 0
         THEN UNCHANGED layers
         ELSE layers' = updateLayer(layers, gesture.id,
                                    TransformEndUpdates(layers[i], node, transformStartDataRef))
    /\ transformStartDataRef' = NullStartData
    /\ Render(layers', selectedLayerId, isDraggingHandleRef)
    /\ cursor' = "default"
    /\ gesture' = NoGesture
    /\ node' = NoNode
    /\ UNCHANGED <<selectedLayerId, activeTool, isDraggingHandleRef, nodeOpacity, gestures>>

----------------------------------------------------------------------------
(* Line endpoint editing: the two handles of LineEndpointHandles.          *)

HandleDragStart(which) ==
    /\ Only("canvas")
    /\ gesture = NoGesture
    /\ gestures < MaxGestures
    /\ HandlesShown(layers, selectedLayerId)
    /\ ~layers[Find(layers, selectedLayerId)].locked
    /\ isDraggingHandleRef' = which
    /\ gesture' = [kind |-> "handle", id |-> selectedLayerId, which |-> which]
    /\ gestures' = gestures + 1
    /\ UNCHANGED <<layers, selectedLayerId, activeTool, transformStartDataRef,
                   node, startHandle, endHandle, nodeOpacity, cursor>>

\* Mutant: the end handle's handler is a copy of the start handle's
HandleDragPoints_CopyOfStart(l, which, h) ==
    <<h.x - l.x, h.y - l.y, l.points[3], l.points[4]>>

\* Mutant: the handle's absolute position is persisted as it is
HandleDragPoints_Absolute(l, which, h) ==
    IF which = "start" THEN <<h.x, h.y, l.points[3], l.points[4]>>
    ELSE <<l.points[1], l.points[2], h.x, h.y>>

\* The points handleDragMove of a handle persists: absolute - layer position
\* for the dragged endpoint, the stored pair for the other one
HandleDragPoints(l, which, h) ==
    LET currentPoints == l.points
        newPointX == h.x - l.x
        newPointY == h.y - l.y
    IN  IF which = "start"
        THEN <<newPointX, newPointY, currentPoints[3], currentPoints[4]>>
        ELSE <<currentPoints[1], currentPoints[2], newPointX, newPointY>>

\* Konva moves the dragged handle to the pointer and fires dragmove
HandleDragMove(p) ==
    /\ Only("canvas")
    /\ gesture.kind = "handle"
    /\ LET i == Find(layers, gesture.id)
           moved == HandleAt(p)
       IN  /\ IF gesture.which = "start" THEN startHandle # moved ELSE endHandle # moved
           /\ IF i # 0 /\ layers[i].type = "line"
              THEN layers' = updateLayer(layers, gesture.id,
                                 [points |-> HandleDragPoints(layers[i], gesture.which, moved)])
              ELSE UNCHANGED layers
           /\ IF gesture.which = "start"
              THEN /\ startHandle' = moved
                   /\ endHandle' = SyncHandle(layers', selectedLayerId, isDraggingHandleRef,
                                              endHandle, "end")
              ELSE /\ endHandle' = moved
                   /\ startHandle' = SyncHandle(layers', selectedLayerId, isDraggingHandleRef,
                                                startHandle, "start")
    /\ UNCHANGED <<selectedLayerId, activeTool, transformStartDataRef, gesture, node,
                   isDraggingHandleRef, nodeOpacity, cursor, gestures>>

\* Mutant: dragend leaves the dragging marker set
HandleDragEnd_KeepsMarker ==
    /\ Only("canvas")
    /\ gesture.kind = "handle"
    /\ gesture' = NoGesture
    /\ UNCHANGED <<layers, selectedLayerId, activeTool, transformStartDataRef, node,
                   startHandle, endHandle, isDraggingHandleRef, nodeOpacity, cursor,
                   gestures>>

HandleDragEnd ==
    /\ Only("canvas")
    /\ gesture.kind = "handle"
    /\ isDraggingHandleRef' = Null
    /\ gesture' = NoGesture
    /\ UNCHANGED <<layers, selectedLayerId, activeTool, transformStartDataRef, node,
                   startHandle, endHandle, nodeOpacity, cursor, gestures>>

----------------------------------------------------------------------------
(* The editor canvas as a state machine.                                   *)

\* No project is being serialized
NoProject ==
    [version |-> "", name |-> "", createdAt |-> 0, modelId |-> "", baseColor |-> "",
     layers |-> <<>>]

NotLoaded == [ok |-> FALSE, from |-> 0, project |-> NoProject]

\* No stage is mounted and nothing was exported
NoStage == [mounted |-> FALSE, nodes |-> <<>>]

\* No template image is held
NoImage == "none"

\* No preview raster
NoPreview == [kind |-> "null", shows |-> <<>>]

\* PublishDialog and SaveDialog as mounted: closed, nothing in progress
ClosedPublishDialog ==
    [isOpen |-> FALSE, title |-> "", uploading |-> FALSE, error |-> Null, success |-> Null]

\* useAuth().user: signed in or not, email_confirmed_at set or not
Users ==
    {[signedIn |-> FALSE, emailConfirmed |-> FALSE],
     [signedIn |-> TRUE, emailConfirmed |-> FALSE],
     [signedIn |-> TRUE, emailConfirmed |-> TRUE]}

\* metaPending: a loadMeta call is waiting for its query; requests: the
\* saveProjectToSupabase calls made so far
ClosedSaveDialog ==
    [isOpen |-> FALSE, editingName |-> "", previewDataUrl |-> NoPreview,
     saving |-> FALSE, error |-> Null, success |-> FALSE, closeTimer |-> FALSE,
     visibility |-> "private", metaPending |-> FALSE,
     user |-> [signedIn |-> TRUE, emailConfirmed |-> TRUE], requests |-> <<>>]

\* A stored project as the validation of loadProjectFromLocalStorage sees it:
\* hasLayers is false when layers is undefined
UndefinedProject == [version |-> "", modelId |-> "", hasLayers |-> FALSE, layers |-> <<>>]

\* An item of localStorage: nothing stored under the key ("none"), or a string:
\* the empty string, a string that is not JSON ("garbage"), the text null, or
\* the text of an object with the keys it holds
NoItem == [kind |-> "none", keys |-> {}, value |-> UndefinedProject]

\* GodotViewer when it has mounted: the useState and useRef initial values,
\* no timer pending
ViewerAtMount(isOpen, model, mounted) ==
    [isOpen |-> isOpen, currentModel |-> model, stageMounted |-> mounted,
     godotReadyRef |-> FALSE, godotReady |-> FALSE, loading |-> TRUE,
     loadingProgress |-> 0, error |-> FALSE,
     iframeEverLoaded |-> FALSE, lastLoadedModelRef |-> Null,
     readyTimer |-> FALSE, textureTimers |-> <<>>, reopenTimer |-> FALSE,
     received |-> 0, handled |-> 0]

\* The parts of the program a specification does not run are as mounted,
\* with nothing in progress
Idle(part) ==
    /\ IF part \in {"canvas", "ai"} THEN TRUE
       ELSE /\ layers = <<>>
            /\ selectedLayerId = Null
            /\ activeTool = "select"
            /\ transformStartDataRef = NullStartData
            /\ gesture = NoGesture
            /\ node = NoNode
            /\ startHandle = NoHandle
            /\ endHandle = NoHandle
            /\ isDraggingHandleRef = Null
            /\ nodeOpacity = [i \in {} |-> 0]
            /\ cursor = "default"
            /\ gestures = 0
    /\ IF part = "serializer" THEN TRUE
       ELSE /\ project = NoProject
            /\ clock = 0
            /\ archives = <<>>
            /\ blobError = FALSE
            /\ loaded = NotLoaded
    /\ IF part = "export" THEN TRUE
       ELSE /\ stage = NoStage
            /\ exports = <<>>
            /\ posted = <<>>
    /\ IF part = "compositor" THEN TRUE
       ELSE /\ scene = [template |-> "", baseColor |-> "", layers |-> <<>>]
            /\ frame = [n |-> 0, drawOrder |-> <<>>, canvas |-> <<>>]
    /\ IF part = "template" THEN TRUE
       ELSE /\ currentModelId = ""
            /\ templateImage = NoImage
            /\ templateDimensions = FALSE
            /\ loads = <<>>
    /\ IF part = "ai" THEN TRUE
       ELSE /\ aiOpen = FALSE
            /\ aiState = [loading |-> FALSE, error |-> Null, images |-> <<>>,
                          selectedIndex |-> 0]
            /\ adds = <<>>
            /\ generations = <<>>
    /\ IF part = "dialog" THEN TRUE
       ELSE /\ storeState = [projectName |-> "", designId |-> Null, saved |-> FALSE,
                             layers |-> <<>>]
            /\ stageRef = FALSE
            /\ publishDialog = ClosedPublishDialog
            /\ saveDialog = ClosedSaveDialog
            /\ attempts = <<>>
            /\ pendingAdd = FALSE
    /\ IF part = "publish" THEN TRUE
       ELSE /\ backend = <<>>
            /\ publishes = <<>>
    /\ IF part = "assets" THEN TRUE
       ELSE /\ assetFiles = {}
            /\ gltfCalls = <<>>
    /\ IF part = "replicate" THEN TRUE
       ELSE /\ apiInput = [fn |-> "none"]
            /\ apiResult = [done |-> FALSE]
    /\ IF part = "viewer" THEN TRUE
       ELSE /\ viewer = ViewerAtMount(FALSE, "modely", FALSE)
            /\ toGodot = <<>>
    /\ IF part = "storage" THEN TRUE
       ELSE /\ localStorage = NoItem
            /\ storageCalls = <<>>

\* The editing situations the canvas starts from: the first layer's lock, its
\* stored scale and opacity (percent), the active tool, and whether the first
\* layer is selected (a layer locked after it was selected stays selected)
Situations ==
    {[locked |-> FALSE, scale |-> One, opacity |-> 100, tool |-> "select", selected |-> FALSE],
     [locked |-> FALSE, scale |-> Rat(2, 1), opacity |-> 50, tool |-> "select", selected |-> FALSE],
     [locked |-> TRUE, scale |-> One, opacity |-> 100, tool |-> "select", selected |-> FALSE],
     [locked |-> TRUE, scale |-> One, opacity |-> 100, tool |-> "select", selected |-> TRUE],
     [locked |-> FALSE, scale |-> One, opacity |-> 100, tool |-> "fill", selected |-> FALSE]}

InitCanvas ==
    /\ \E t1 \in Kinds, t2 \in {"rect", "line"}, s \in Situations :
         /\ layers = <<NewLayer("a", t1, s.locked, s.opacity, s.scale),
                       NewLayer("b", t2, FALSE, 0, One)>>
         /\ activeTool = s.tool
         /\ selectedLayerId = IF s.selected THEN "a" ELSE Null
    /\ transformStartDataRef = NullStartData
    /\ gesture = NoGesture
    /\ node = NoNode
    /\ startHandle = SyncHandle(layers, selectedLayerId, Null, NoHandle, "start")
    /\ endHandle = SyncHandle(layers, selectedLayerId, Null, NoHandle, "end")
    /\ isDraggingHandleRef = Null
    /\ nodeOpacity = [i \in {layers[j].id : j \in 1..Len(layers)} |->
                         layers[Find(layers, i)].opacity]
    /\ cursor = "default"
    /\ gestures = 0
    /\ Idle("canvas")

NextCanvas ==
    \/ \E i \in 1..Len(layers) : \E under \in {0} \cup ((i + 1)..Len(layers)) :
          ClickAt(i, under)
    \/ handleStageClick
    \/ \E i \in 1..Len(layers) : DragStart(i)
    \/ \E p \in PosSet : DragMove(p)
    \/ handleDragEnd
    \/ \E i \in 1..Len(layers) : handleTransformStart(i)
    \/ \E pose \in TransformPoses : TransformMove(pose)
    \/ deleteLayer
    \/ handleTransformEnd
    \/ \E which \in {"start", "end"} : HandleDragStart(which)
    \/ \E p \in PosSet : HandleDragMove(p)
    \/ HandleDragEnd

SpecCanvas == InitCanvas /\ [][NextCanvas]_vars

----------------------------------------------------------------------------
(* Strings of the serializer.  A string is the sequence of its tokens: the  *)
(* scheme and media type of a URL are one token each, a base64 payload is   *)
(* one token per character.                                                 *)

StartsWith(str, prefix) == Len(str) > 0 /\ str[1] = prefix

\* str.split(sep): the segments between the occurrences of sep
RECURSIVE SplitFrom(_, _, _, _)
SplitFrom(str, sep, k, cur) ==
    IF k > Len(str) THEN <<cur>>
    ELSE IF str[k] = sep THEN <<cur>> \o SplitFrom(str, sep, k + 1, <<>>)
    ELSE SplitFrom(str, sep, k + 1, Append(cur, str[k]))

Split(str, sep) == SplitFrom(str, sep, 1, <<>>)

\* str.replace(tok, ''): the first occurrence of tok removed
ReplaceFirst(str, tok) ==
    IF \E k \in 1..Len(str) : str[k] = tok
    THEN LET k == CHOOSE k \in 1..Len(str) : str[k] = tok /\ \A j \in 1..(k - 1) : str[j] # tok
         IN  SubSeq(str, 1, k - 1) \o SubSeq(str, k + 1, Len(str))
    ELSE str

B64Chars ==
    <<"A", "B", "C", "D", "E", "F", "G", "H", "I", "J", "K", "L", "M", "N", "O", "P",
      "Q", "R", "S", "T", "U", "V", "W", "X", "Y", "Z", "a", "b", "c", "d", "e", "f",
      "g", "h", "i", "j", "k", "l", "m", "n", "o", "p", "q", "r", "s", "t", "u", "v",
      "w", "x", "y", "z", "0", "1", "2", "3", "4", "5", "6", "7", "8", "9", "+", "/">>

IsB64Char(c) == \E i \in 1..Len(B64Chars) : B64Chars[i] = c

B64Value(c) == (CHOOSE i \in 1..Len(B64Chars) : B64Chars[i] = c) - 1

\* The bytes of one group of 2, 3 or 4 base64 characters
B64Group(g) ==
    LET c(i) == IF i <= Len(g) THEN B64Value(g[i]) ELSE 0
        v == c(1) * 262144 + c(2) * 4096 + c(3) * 64 + c(4)
        bytes == <<v \div 65536, (v \div 256) % 256, v % 256>>
    IN  SubSeq(bytes, 1, Len(g) - 1)

RECURSIVE B64Groups(_)
B64Groups(str) ==
    IF Len(str) = 0 THEN <<>>
    ELSE IF Len(str) <= 4 THEN B64Group(str)
    ELSE B64Group(SubSeq(str, 1, 4)) \o B64Groups(SubSeq(str, 5, Len(str)))

\* atob(str): [ok, bytes]; ok is FALSE where atob throws InvalidCharacterError
atob(str) ==
    LET n == Len(str)
        body == IF n > 0 /\ n % 4 = 0 /\ str[n] = "="
                THEN IF str[n - 1] = "=" THEN SubSeq(str, 1, n - 2) ELSE SubSeq(str, 1, n - 1)
                ELSE str
    IN  IF Len(body) % 4 = 1 \/ \E k \in 1..Len(body) : ~IsB64Char(body[k])
        THEN [ok |-> FALSE, bytes |-> <<>>]
        ELSE [ok |-> TRUE, bytes |-> B64Groups(body)]

\* String(undefined), what atob receives when the data URL has no comma
UndefinedString == <<"u", "n", "d", "e", "f", "i", "n", "e", "d">>

\* dataUrlToUint8Array: the bytes after the first comma, base64-decoded
dataUrlToUint8Array(dataUrl) ==
    LET parts == Split(dataUrl, ",")
    IN  atob(IF Len(parts) >= 2 THEN parts[2] ELSE UndefinedString)

----------------------------------------------------------------------------
(* The project serializer: projectToBlob.                                  *)

\* A layer identifier as it appears inside a template string: the characters
\* of the identifier, so that the identifier "fill-a" reads "fill-" then "a"
IdTokens(id) == IF id = "fill-a" THEN <<"fill-", "a">> ELSE <<id>>

\* JavaScript truthiness of an optional string field
Truthy(l, f) == f \in DOMAIN l /\ Len(l[f]) > 0

\* Mutant: texture layers are forgotten
ExtractsSrc_ImageOnly(l) ==
    /\ l.type = "image"
    /\ Truthy(l, "src")
    /\ StartsWith(l.src, "data:")

\* The layer's src is externalized
ExtractsSrc(l) ==
    /\ l.type \in {"image", "texture"}
    /\ Truthy(l, "src")
    /\ StartsWith(l.src, "data:")

\* The layer's fillImageDataUrl is externalized
ExtractsFill(l) ==
    /\ l.type = "fill"
    /\ Truthy(l, "fillImageDataUrl")
    /\ StartsWith(l.fillImageDataUrl, "data:")

\* `images/${layer.id}.png` and `images/fill-${layer.id}.png`
SrcFilename(l) == <<"images/">> \o IdTokens(l.id) \o <<".png">>
FillFilename(l) == <<"images/", "fill-">> \o IdTokens(l.id) \o <<".png">>

\* The entries the map callback pushes to `images` for one layer
ImagesOfLayer(l) ==
    (IF ExtractsSrc(l)
     THEN <<[layerId |-> l.id, type |-> "src", dataUrl |-> l.src,
             filename |-> SrcFilename(l)]>>
     ELSE <<>>)
    \o
    (IF ExtractsFill(l)
     THEN <<[layerId |-> l.id, type |-> "fillImage", dataUrl |-> l.fillImageDataUrl,
             filename |-> FillFilename(l)]>>
     ELSE <<>>)

\* The cleanLayer the map callback returns for one layer
CleanLayer(l) ==
    LET c1 == IF ExtractsSrc(l) THEN Spread(l, [src |-> SrcFilename(l)]) ELSE l
    IN  IF ExtractsFill(l) THEN Spread(c1, [fillImageDataUrl |-> FillFilename(l)]) ELSE c1

cleanedLayers(ls) == [i \in 1..Len(ls) |-> CleanLayer(ls[i])]

RECURSIVE ImagesFrom(_, _)
ImagesFrom(ls, k) ==
    IF k > Len(ls) THEN <<>> ELSE ImagesOfLayer(ls[k]) \o ImagesFrom(ls, k + 1)

\* Mutant: cleanLayer is the layer object itself for image and texture layers
LayersAfterMap_NoCopyOfImages(ls) ==
    [i \in 1..Len(ls) |-> IF ExtractsSrc(ls[i]) THEN CleanLayer(ls[i]) ELSE ls[i]]

\* Mutant: the map callback rewrites the layer objects of the project in place
LayersAfterMap_InPlace(ls) == cleanedLayers(ls)

\* The project's layers as the map callback leaves them: it works on a copy
LayersAfterMap(ls) == ls

\* Mutant: the manifest lists the layers in render order (reversed)
Manifest_RenderOrder(p, now) ==
    [version |-> "2.0", name |-> p.name, createdAt |-> p.createdAt,
     modifiedAt |-> now, modelId |-> p.modelId, baseColor |-> p.baseColor,
     layers |-> [i \in 1..Len(p.layers) |-> cleanedLayers(p.layers)[Len(p.layers) + 1 - i]]]

Manifest(p, now) ==
    [version |-> "2.0", name |-> p.name, createdAt |-> p.createdAt,
     modifiedAt |-> now, modelId |-> p.modelId, baseColor |-> p.baseColor,
     layers |-> cleanedLayers(p.layers)]

\* Mutant: the file is added under its full filename inside the images folder
RECURSIVE WriteImages_KeepsPrefix(_, _, _)
WriteImages_KeepsPrefix(images, k, files) ==
    IF k > Len(images) THEN files
    ELSE WriteImages_KeepsPrefix(images, k + 1,
             ((<<"images/">> \o images[k].filename) :>
                  dataUrlToUint8Array(images[k].dataUrl).bytes) @@ files)

\* imagesFolder.file(name, bytes) for every entry in order; a later entry
\* with the same name replaces the earlier file
RECURSIVE WriteImages(_, _, _)
WriteImages(images, k, files) ==
    IF k > Len(images) THEN files
    ELSE LET name == ReplaceFirst(images[k].filename, "images/")
             path == <<"images/">> \o name
             bytes == dataUrlToUint8Array(images[k].dataUrl).bytes
         IN  WriteImages(images, k + 1, (path :> bytes) @@ files)

NoFiles == [path \in {} |-> <<>>]

\* Some dataUrlToUint8Array call throws: the promise rejects, no blob
BlobThrows(p) ==
    LET images == ImagesFrom(p.layers, 1)
    IN  \E k \in 1..Len(images) : ~dataUrlToUint8Array(images[k].dataUrl).ok

\* The archive projectToBlob resolves with
Blob(p, now) ==
    [manifest |-> Manifest(p, now),
     files |-> WriteImages(ImagesFrom(p.layers, 1), 1, NoFiles)]

----------------------------------------------------------------------------
(* Transform synchronizer: the claims.                                     *)

\* The transition is the end of a Transformer gesture / of a whole-layer
\* drag / a move of an endpoint handle
IsTransformEnd ==
    gesture.kind = "transform" /\ gesture'.kind = "none" /\ Find(layers, gesture.id) # 0

IsDragEnd == gesture.kind = "drag" /\ gesture'.kind = "none"

IsHandleMove(which) ==
    gesture.kind = "handle" /\ gesture'.kind = "handle" /\ gesture.which = which

\* w = |W * a / b| for rationals, by cross-multiplication
IsAbsOfScaled(w, W, a, b) ==
    /\ IsNum(w) /\ IsNum(W) /\ IsNum(a) /\ IsNum(b) /\ b[1] # 0
    /\ w[1] >= 0
    /\ w[1] * (W[2] * a[2] * AbsInt(b[1])) = w[2] * AbsInt(W[1] * a[1] * b[2])

SizeFields == {"width", "height", "radius", "points", "numPoints", "innerRadius", "outerRadius"}

\* Layer b differs from layer a at most in the fields of F
SameExcept(a, b, F) ==
    /\ DOMAIN a = DOMAIN b
    /\ \A f \in (DOMAIN a) \ F : a[f] = b[f]

\* C1: when a Transformer gesture on a rectangle layer ends, the store holds
\* width = |W * sx' / sx| and height = |H * sy' / sy| for the layer, where W, H,
\* sx, sy are the layer's width, height and scale when the gesture started and
\* sx', sy' the node's scale at its end, and the layer's scale is (1, 1).
C1_RectResize ==
    [][IsTransformEnd /\ gesture.start.type = "rect" =>
        LET l0 == gesture.start
            l1 == layers'[Find(layers', gesture.id)]
        IN  /\ IsAbsOfScaled(l1.width, l0.width, node.scaleX, l0.scaleX)
            /\ IsAbsOfScaled(l1.height, l0.height, node.scaleY, l0.scaleY)
            /\ l1.scaleX = One /\ l1.scaleY = One]_vars

\* A rectangle stored with scale 2 was resized once to node scale (1/2, -2):
\* 200 x 100 became 50 x 100.
C1_Witness ==
    /\ Len(layers) = 2
    /\ gestures = 1 /\ gesture = NoGesture
    /\ layers[1].type = "rect"
    /\ layers[1].width = <<50, 1>> /\ layers[1].height = <<100, 1>>
    /\ layers[1].scaleX = One

\* C2: when a Transformer gesture on a layer that is not a rectangle ends, the
\* store holds the node's scaleX, scaleY and rotation as reported, and the
\* layer's intrinsic size fields are the ones it had, with the same values.
C2_NonRectKeepsSize ==
    [][IsTransformEnd /\ gesture.start.type # "rect" =>
        LET l0 == layers[Find(layers, gesture.id)]
            l1 == layers'[Find(layers', gesture.id)]
        IN  /\ l1.scaleX = node.scaleX /\ l1.scaleY = node.scaleY
            /\ l1.rotation = node.rotation
            /\ DOMAIN l1 = DOMAIN l0
            /\ \A f \in SizeFields \cap DOMAIN l0 : l1[f] = l0[f]]_vars

\* A star was flipped and rotated by a gesture and kept its radii.
C2_Witness ==
    /\ Len(layers) = 2
    /\ gesture = NoGesture
    /\ layers[1].type = "star"
    /\ layers[1].scaleX = Rat(0 - 1, 1) /\ layers[1].scaleY = Rat(3, 1)
    /\ layers[1].rotation = 45
    /\ layers[1].outerRadius = 40

\* C3: when a drag of a layer ends, that layer's stored x and y are the
\* node's final x and y, every other field of the layer is unchanged, and so
\* is every other layer.
C3_DragWritesOnlyPosition ==
    [][IsDragEnd =>
        /\ Len(layers') = Len(layers)
        /\ \A j \in 1..Len(layers) :
             layers'[j] = IF layers[j].id = gesture.id
                          THEN [layers[j] EXCEPT !.x = node.x, !.y = node.y]
                          ELSE layers[j]]_vars

\* The second layer was dragged to (3, 4) after the first had been resized.
C3_Witness ==
    /\ gesture = NoGesture /\ gestures = 2
    /\ Len(layers) = 2
    /\ layers[2].x = 3 /\ layers[2].y = 4
    /\ layers[1].scaleX = Rat(1, 2)

\* C4: a move of the start handle of a line changes no stored field of the
\* line but points, keeps points[2..3] and changes no other layer; a move of
\* the end handle likewise keeps points[0..1].
C4_HandleMovesOneEndpoint ==
    [][\A which \in {"start", "end"} : IsHandleMove(which) =>
        LET i == Find(layers, gesture.id)
            kept == IF which = "start" THEN {3, 4} ELSE {1, 2}
        IN  /\ Len(layers') = Len(layers)
            /\ \A j \in 1..Len(layers) : j # i => layers'[j] = layers[j]
            /\ SameExcept(layers[i], layers'[i], {"points"})
            /\ \A k \in kept : layers'[i].points[k] = layers[i].points[k]]_vars

\* A line whose start and end points were both moved, one after the other.
C4_Witness ==
    /\ Len(layers) = 2
    /\ gesture = NoGesture /\ gestures = 2
    /\ \E i \in 1..Len(layers) :
         /\ layers[i].type = "line"
         /\ layers[i].points[1] # 0 /\ layers[i].points[3] # 3
         /\ layers[i].x = 0 /\ layers[i].y = 0

----------------------------------------------------------------------------
(* Reading an archive back.                                                *)

\* btoa over bytes: one group of 1, 2 or 3 bytes as 4 characters
BytesGroup(g) ==
    LET b(i) == IF i <= Len(g) THEN g[i] ELSE 0
        v == b(1) * 65536 + b(2) * 256 + b(3)
        ch(k) == B64Chars[((v \div k) % 64) + 1]
    IN  CASE Len(g) = 1 -> <<ch(262144), ch(4096), "=", "=">>
          [] Len(g) = 2 -> <<ch(262144), ch(4096), ch(64), "=">>
          [] OTHER      -> <<ch(262144), ch(4096), ch(64), ch(1)>>

RECURSIVE btoa(_)
btoa(bytes) ==
    IF Len(bytes) = 0 THEN <<>>
    ELSE IF Len(bytes) <= 3 THEN BytesGroup(bytes)
    ELSE BytesGroup(SubSeq(bytes, 1, 3)) \o btoa(SubSeq(bytes, 4, Len(bytes)))

\* The raster file re-embedded: the archive names every raster *.png
EmbedPng(bytes) == <<"data:", "image/png", ";base64", ",">> \o btoa(bytes)

\* A layer field of the manifest that references a file of the archive is
\* resolved and re-embedded
Reembed(l, f, files) ==
    IF f \in DOMAIN l /\ StartsWith(l[f], "images/") /\ l[f] \in DOMAIN files
    THEN Spread(l, [g \in {f} |-> EmbedPng(files[l[f]])])
    ELSE l

ReembedLayer(l, files) ==
    IF l.type \in {"image", "texture"} THEN Reembed(l, "src", files)
    ELSE IF l.type = "fill" THEN Reembed(l, "fillImageDataUrl", files)
    ELSE l

\* Deserialize: the in-memory project of an archive
blobToProject(blob) ==
    [version |-> blob.manifest.version, name |-> blob.manifest.name,
     createdAt |-> blob.manifest.createdAt, modelId |-> blob.manifest.modelId,
     baseColor |-> blob.manifest.baseColor,
     layers |-> [i \in 1..Len(blob.manifest.layers) |->
                    ReembedLayer(blob.manifest.layers[i], blob.files)]]

----------------------------------------------------------------------------
(* The serializer as a state machine: a project is serialized, possibly     *)
(* several times, and archives are read back.                               *)

PngUrl == <<"data:", "image/png", ";base64", ",", "Q", "U", "J", "D">>
PngUrl2 == <<"data:", "image/png", ";base64", ",", "Q", "Q", "=", "=">>
JpegUrl == <<"data:", "image/jpeg", ";base64", ",", "/", "+", "8", "A", "Q", "U", "I", "=">>
SvgUrl == <<"data:", "image/svg+xml", ",", "<svg/>">>
ExternalUrl == <<"https://", "cdn.example/x.png">>
ExternalUrlWithComma == <<"https://", "cdn.example/f_auto", ",", "w_64/x.png">>
EmptyString == <<>>

\* The bytes of the raster each embedded source holds
RasterBytes(url) ==
    CASE url = PngUrl  -> <<65, 66, 67>>
      [] url = PngUrl2 -> <<65>>
      [] url = JpegUrl -> <<255, 239, 0, 65, 66>>
      [] OTHER         -> <<>>

\* The layers a project may hold, by kind and raster source
LayerShapes ==
    {[type |-> "image", field |-> "src", value |-> PngUrl],
     [type |-> "image", field |-> "src", value |-> JpegUrl],
     [type |-> "image", field |-> "src", value |-> ExternalUrl],
     [type |-> "image", field |-> "src", value |-> EmptyString],
     [type |-> "image", field |-> "src", value |-> SvgUrl],
     [type |-> "texture", field |-> "src", value |-> PngUrl2],
     [type |-> "texture", field |-> "src", value |-> ExternalUrlWithComma],
     [type |-> "fill", field |-> "fillImageDataUrl", value |-> PngUrl],
     [type |-> "fill", field |-> "fillImageDataUrl", value |-> ExternalUrl],
     [type |-> "fill", field |-> "none", value |-> EmptyString],
     [type |-> "rect", field |-> "none", value |-> EmptyString]}

LayerIds == <<"a", "b", "c", "d">>

ShapedLayer(id, shape) ==
    LET l == NewLayer(id, shape.type, FALSE, 100, One)
    IN  IF shape.field = "none" THEN l
        ELSE Spread(l, [g \in {shape.field} |-> shape.value])

ProjectMetas ==
    {[name |-> "Wrap A", createdAt |-> 0, modelId |-> "model3", baseColor |-> "#FF0000"],
     [name |-> "Wrap B", createdAt |-> 1, modelId |-> "modely", baseColor |-> "#000000"]}

\* A project whose layers carry the identifiers ids, in order
ProjectWith(ids) ==
    /\ \E n \in 0..MaxProjectLayers, m \in ProjectMetas :
         \E shapes \in [1..n -> LayerShapes] :
             project = [version |-> "2.0", name |-> m.name, createdAt |-> m.createdAt,
                        modelId |-> m.modelId, baseColor |-> m.baseColor,
                        layers |-> [i \in 1..n |-> ShapedLayer(ids[i], shapes[i])]]

InitSerializer ==
    /\ ProjectWith(LayerIds)
    /\ clock = 1
    /\ archives = <<>>
    /\ blobError = FALSE
    /\ loaded = NotLoaded
    /\ Idle("serializer")

Tick ==
    /\ Only("serializer")
    /\ clock < MaxClock
    /\ clock' = clock + 1
    /\ UNCHANGED <<project, archives, blobError, loaded>>

\* projectToBlob(project) resolves with an archive, or rejects
projectToBlob ==
    /\ Only("serializer")
    /\ Len(archives) < MaxBlobs
    /\ IF BlobThrows(project)
       THEN /\ blobError' = TRUE
            /\ UNCHANGED archives
       ELSE /\ blobError' = FALSE
            /\ archives' = Append(archives, [input |-> project, blob |-> Blob(project, clock)])
    /\ project' = [project EXCEPT !.layers = LayersAfterMap(project.layers)]
    /\ UNCHANGED <<clock, loaded>>

Deserialize(k) ==
    /\ Only("serializer")
    /\ loaded' = [ok |-> TRUE, from |-> k, project |-> blobToProject(archives[k].blob)]
    /\ loaded' # loaded
    /\ UNCHANGED <<project, clock, archives, blobError>>

NextSerializer ==
    \/ Tick
    \/ projectToBlob
    \/ \E k \in 1..Len(archives) : Deserialize(k)

SpecSerializer == InitSerializer /\ [][NextSerializer]_vars

\* The serializer on a project (one opened from a file) in which the
\* identifier of a layer is "fill-" followed by the identifier of another
InitPrefixedIds ==
    /\ ProjectWith(<<"a", "fill-a", "c", "d">>)
    /\ clock = 1
    /\ archives = <<>>
    /\ blobError = FALSE
    /\ loaded = NotLoaded
    /\ Idle("serializer")

SpecPrefixedIds == InitPrefixedIds /\ [][NextSerializer]_vars

----------------------------------------------------------------------------
(* Project serializer: the claims.                                         *)

\* The raster field of a layer kind
RasterField(type) ==
    IF type \in {"image", "texture"} THEN "src"
    ELSE IF type = "fill" THEN "fillImageDataUrl" ELSE "none"

\* The field holds embedded raster data (a data: URL)
IsEmbedded(l, f) == f \in DOMAIN l /\ Len(l[f]) > 0 /\ l[f][1] = "data:"

\* The value is a relative path under images/
IsImagesPath(v) == Len(v) > 0 /\ v[1] = "images/"

\* The images/ paths the raster fields of a manifest's layers hold
ReferencedPaths(out) ==
    {out[i][RasterField(out[i].type)] :
        i \in {j \in 1..Len(out) : /\ RasterField(out[j].type) \in DOMAIN out[j]
                                   /\ IsImagesPath(out[j][RasterField(out[j].type)])}}

\* C31: in every archive projectToBlob produced from a project whose layers
\* have pairwise distinct identifiers, the externalized rasters of two
\* different layers have different images/ paths, so the archive holds one
\* file for each of them.
C31_DistinctRasterPaths ==
    \A k \in 1..Len(archives) :
        LET inp == archives[k].input.layers
            out == archives[k].blob.manifest.layers
            ext == {i \in 1..Len(inp) : IsEmbedded(inp[i], RasterField(inp[i].type))}
        IN  (\A i, j \in 1..Len(inp) : i # j => inp[i].id # inp[j].id) =>
                /\ \A i, j \in ext :
                      i # j => out[i][RasterField(out[i].type)]
                                   # out[j][RasterField(out[j].type)]
                /\ Cardinality(DOMAIN archives[k].blob.files) = Cardinality(ext)

C5_ExternalizedIffEmbedded ==
    \A k \in 1..Len(archives) :
        LET inp == archives[k].input.layers
            out == archives[k].blob.manifest.layers
            files == archives[k].blob.files
        IN  /\ Len(out) = Len(inp)
            /\ \A i \in 1..Len(inp) :
                 LET f == RasterField(inp[i].type)
                 IN  f # "none" =>
                       IF IsEmbedded(inp[i], f)
                       THEN f \in DOMAIN out[i] /\ IsImagesPath(out[i][f])
                       ELSE /\ (f \in DOMAIN out[i]) = (f \in DOMAIN inp[i])
                            /\ f \in DOMAIN inp[i] =>
                                 out[i][f] = inp[i][f] /\ ~IsImagesPath(out[i][f])
                            /\ \A path \in DOMAIN files :
                                 \A t \in 1..Len(path) : path[t] # inp[i].id

\* An archive of a project with an embedded texture and an external image.
C5_Witness ==
    \E k \in 1..Len(archives) :
        LET inp == archives[k].input.layers
        IN  /\ Len(inp) = 2
            /\ inp[1].type = "texture" /\ IsEmbedded(inp[1], "src")
            /\ inp[2].type = "image" /\ inp[2].src = ExternalUrl

C7_RoundTrip ==
    loaded.ok =>
        LET inp == archives[loaded.from].input
        IN  /\ loaded.project.modelId = inp.modelId
            /\ loaded.project.baseColor = inp.baseColor
            /\ loaded.project.layers = inp.layers

C9_ManifestCarriesProject ==
    \A k \in 1..Len(archives) :
        LET inp == archives[k].input
            man == archives[k].blob.manifest
        IN  /\ man.name = inp.name /\ man.createdAt = inp.createdAt
            /\ man.modelId = inp.modelId /\ man.baseColor = inp.baseColor
            /\ man.version = "2.0"
            /\ Len(man.layers) = Len(inp.layers)
            /\ \A i \in 1..Len(inp.layers) :
                 man.layers[i].id = inp.layers[i].id /\ man.layers[i].type = inp.layers[i].type

\* A manifest of the second project with two layers of different kinds.
C9_Witness ==
    \E k \in 1..Len(archives) :
        LET man == archives[k].blob.manifest
        IN  /\ man.name = "Wrap B" /\ man.modelId = "modely"
            /\ Len(man.layers) = 2 /\ man.layers[1].type # man.layers[2].type

----------------------------------------------------------------------------
(* The export pipeline: exportPngAsDataUrl(stage).                         *)
(* A stage node is a record of its class name, its own listening and       *)
(* visible attributes and the class names of its children.                 *)

StageNode(className, listening, visible, children) ==
    [className |-> className, listening |-> listening, visible |-> visible,
     children |-> children]

\* A line endpoint handle: a Circle that LineEndpointHandles renders for the
\* selected line layer, listening unless the layer is locked
EndpointHandle(listening) ==
    [className |-> "Circle", listening |-> listening, visible |-> TRUE,
     children |-> <<>>, handle |-> TRUE]

\* The nodes a stage of the editor holds: the transformer, the brush cursor,
\* the mask group, a group of design layers, a group with a single circle,
\* a plain shape, a circle layer and the endpoint handles of a selected line
NodeShapes ==
    {StageNode("Transformer", TRUE, v, <<"Shape", "Rect", "Rect">>) : v \in BOOLEAN}
    \cup {StageNode("Group", FALSE, v, <<"Circle", "Circle">>) : v \in BOOLEAN}
    \cup {StageNode("Group", FALSE, TRUE, <<"Image">>),
          StageNode("Group", TRUE, TRUE, <<"Circle", "Rect">>),
          StageNode("Group", FALSE, TRUE, <<"Circle">>),
          StageNode("Rect", FALSE, TRUE, <<>>),
          StageNode("Circle", TRUE, TRUE, <<>>)}
    \cup {EndpointHandle(l) : l \in BOOLEAN}

\* Konva's selector 'Group' matches a node by class name or by node type, and
\* a Transformer is a Group by node type
IsGroup(n) == n.className \in {"Group", "Transformer"}

\* stage.findOne('Transformer'): the first transformer, 0 if there is none
FindTransformer(nodes) ==
    IF \E i \in 1..Len(nodes) : nodes[i].className = "Transformer"
    THEN CHOOSE i \in 1..Len(nodes) :
            /\ nodes[i].className = "Transformer"
            /\ \A j \in 1..(i - 1) : nodes[j].className # "Transformer"
    ELSE 0

\* The test of the forEach callback: a non-listening group with a Circle
\* among at least two children
IsBrushCursorGroup(n) ==
    /\ IsGroup(n)
    /\ n.listening = FALSE
    /\ \E c \in 1..Len(n.children) : n.children[c] = "Circle"
    /\ Len(n.children) >= 2

\* node.visible(FALSE) for the nodes of elementsToHide
Hide(nodes) ==
    [i \in 1..Len(nodes) |->
        IF i = FindTransformer(nodes) \/ IsBrushCursorGroup(nodes[i])
        THEN [nodes[i] EXCEPT !.visible = FALSE]
        ELSE nodes[i]]

\* elementsToHide: the transformer first, then the groups in stage order,
\* each with the visibility it had when it was pushed
RECURSIVE HiddenGroups(_, _, _)
HiddenGroups(nodes, i, acc) ==
    IF i > Len(nodes) THEN acc
    ELSE HiddenGroups(nodes, i + 1,
             IF IsBrushCursorGroup(nodes[i])
             THEN Append(acc, [node |-> i,
                               wasVisible |-> IF i = FindTransformer(nodes) THEN FALSE
                                              ELSE nodes[i].visible])
             ELSE acc)

ElementsToHide(nodes) ==
    HiddenGroups(nodes, 1,
        IF FindTransformer(nodes) # 0
        THEN <<[node |-> FindTransformer(nodes),
                wasVisible |-> nodes[FindTransformer(nodes)].visible]>>
        ELSE <<>>)

\* elementsToHide.forEach(({node, wasVisible}) => node.visible(wasVisible))
RECURSIVE Restore(_, _, _)
Restore(nodes, hidden, k) ==
    IF k > Len(hidden) THEN nodes
    ELSE Restore([nodes EXCEPT ![hidden[k].node].visible = hidden[k].wasVisible],
                 hidden, k + 1)

\* What stage.toDataURL does: it returns the PNG data URL, it returns '' (Konva
\* catches the SecurityError of a tainted canvas), or drawing the stage onto
\* the export canvas throws (drawImage of a broken or empty source)
CaptureOutcomes == {"dataUrl", "empty", "throws"}

\* The nodes the capture draws
Drawn(nodes) == {i \in 1..Len(nodes) : nodes[i].visible}

\* The stage's nodes when the executor is left: an exception skips the restore
AfterCapture(nodes, outcome) ==
    IF outcome = "throws" THEN Hide(nodes)
    ELSE Restore(Hide(nodes), ElementsToHide(nodes), 1)

\* What the promise settles with
Settled(outcome) ==
    IF outcome = "throws" THEN [status |-> "rejected", value |-> "error"]
    ELSE [status |-> "resolved", value |-> outcome]

InitExport ==
    /\ \/ stage = NoStage
       \/ \E n \in 1..MaxNodes : \E shapes \in [1..n -> NodeShapes] :
             stage = [mounted |-> TRUE, nodes |-> shapes]
    /\ exports = <<>>
    /\ posted = <<>>
    /\ Idle("export")

\* One call of exportPngAsDataUrl(stage), from entry until the executor is left
exportPngAsDataUrl ==
    /\ Only("export")
    /\ Len(exports) < MaxExports
    /\ IF ~stage.mounted
       THEN /\ exports' = Append(exports,
                    [before |-> stage.nodes, drawn |-> {},
                     promise |-> [status |-> "resolved", value |-> "null"]])
            /\ UNCHANGED stage
       ELSE \E outcome \in CaptureOutcomes :
            /\ stage' = [stage EXCEPT !.nodes = AfterCapture(stage.nodes, outcome)]
            /\ exports' = Append(exports,
                    [before |-> stage.nodes, drawn |-> Drawn(Hide(stage.nodes)),
                     promise |-> Settled(outcome)])
    /\ UNCHANGED posted

\* One call of sendTextureToGodot() that posts: the viewer is ready, the stage
\* is mounted and stage.toCanvas().toDataURL('image/png') returns (a throw is
\* caught and posts nothing); the stage is drawn as it is
sendTextureToGodot ==
    /\ Only("export")
    /\ Len(posted) < MaxExports
    /\ stage.mounted
    /\ posted' = Append(posted, [type |-> "set_texture", before |-> stage.nodes,
                                 drawn |-> Drawn(stage.nodes)])
    /\ UNCHANGED <<stage, exports>>

NextExport ==
    \/ exportPngAsDataUrl
    \/ sendTextureToGodot

SpecExport == InitExport /\ [][NextExport]_vars

\* The own visibility of every node
Visibility(nodes) == [i \in 1..Len(nodes) |-> nodes[i].visible]

\* C10: after every call of exportPngAsDataUrl, a call whose capture fails
\* included, every node of the stage has the visibility it had before the
\* call.
C10_VisibilityRestored ==
    [][exportPngAsDataUrl => Visibility(stage'.nodes) = Visibility(stage.nodes)]_vars

\* An interactive-only overlay: the transformer, a line endpoint handle or
\* the brush cursor indicator
IsOverlay(n) ==
    \/ n.className = "Transformer"
    \/ "handle" \in DOMAIN n
    \/ n.className = "Group" /\ ~n.listening /\ n.children = <<"Circle", "Circle">>

\* C11: in every call of exportPngAsDataUrl that captured a raster, no
\* interactive-only overlay node (transformer, line endpoint handle, brush
\* cursor) of the stage was visible when the raster was captured.
C11_NoOverlayCaptured ==
    \A k \in 1..Len(exports) :
        exports[k].promise.value = "dataUrl" =>
            \A i \in exports[k].drawn : ~IsOverlay(exports[k].before[i])

\* C24: every raster posted to the 3D preview in a set_texture message is
\* what the export pipeline captures of the same stage: no interactive-only
\* overlay is drawn in it, also when a layer is selected (the transformer is
\* visible).
C24_TextureIsExportOutput ==
    \A k \in 1..Len(posted) :
        posted[k].type = "set_texture" =>
            /\ posted[k].drawn = Drawn(Hide(posted[k].before))
            /\ \A i \in posted[k].drawn : ~IsOverlay(posted[k].before[i])

----------------------------------------------------------------------------
(* The canvas compositor: what the <Layer> of EditorCanvas draws.  The     *)
(* canvas is a set of cells; a cell holds, for the base color and for      *)
(* every layer, the share of the cell's color that source contributes.     *)

Cells == {"inside", "edge", "outside"}

Half == Rat(1, 2)

Templates == {"silhouette", "full"}

\* The alpha channel of the template image at a cell
TemplateAlpha(t, c) ==
    IF t = "full" THEN One
    ELSE CASE c = "inside" -> One
           [] c = "edge"   -> Half
           [] OTHER        -> Zero

OneMinus(a) == Rat(a[2] - a[1], a[2])

RLeq(a, b) == a[1] * b[2] <= b[1] * a[2]

\* A layer of the scene: its footprint is the set of cells its node covers
\* under its current transform
SceneLayer(id, visible, opacity, footprint) ==
    [id |-> id, visible |-> visible, opacity |-> opacity, footprint |-> footprint]

Ids(ls) == [i \in 1..Len(ls) |-> ls[i].id]

Reverse(seq) == [i \in 1..Len(seq) |-> seq[Len(seq) + 1 - i]]

\* Mutant: the layers are drawn in the stored order
DrawOrder_AsStored(ls) == ls

\* [...layers].reverse()
DrawOrder(ls) == Reverse(ls)

\* The stored sequence after the render: the reversal works on a copy
LayersAfterRender(ls) == ls

\* The node of a layer as a draw operation; an invisible node draws nothing
DrawLayer(l) ==
    [op |-> "draw", src |-> l.id,
     alpha |-> IF l.visible THEN Rat(l.opacity, 100) ELSE Zero,
     cells |-> l.footprint]

MaskOp == [op |-> "mask", src |-> "template", alpha |-> One, cells |-> Cells]

BaseOp == [op |-> "draw", src |-> "base", alpha |-> One, cells |-> Cells]

\* Mutant: the second mask group comes before the design layers
DrawList_MaskBeforeLayers(s) ==
    <<BaseOp, MaskOp, MaskOp>>
        \o [i \in 1..Len(s.layers) |-> DrawLayer(DrawOrder(s.layers)[i])]

\* The children of the <Layer> in order: base color rect, mask group, the
\* design layers, mask group
DrawList(s) ==
    <<BaseOp, MaskOp>>
        \o [i \in 1..Len(s.layers) |-> DrawLayer(DrawOrder(s.layers)[i])]
        \o <<MaskOp>>

BlankCanvas(srcs) == [c \in Cells |-> [x \in srcs |-> Zero]]

\* globalCompositeOperation source-over
SourceOver(canvas, op) ==
    [c \in Cells |->
        IF c \in op.cells
        THEN [x \in DOMAIN canvas[c] |->
                 IF x = op.src THEN op.alpha
                 ELSE RMul(canvas[c][x], OneMinus(op.alpha))]
        ELSE canvas[c]]

\* globalCompositeOperation destination-in with the template image
DestinationIn(canvas, t) ==
    [c \in Cells |-> [x \in DOMAIN canvas[c] |-> RMul(canvas[c][x], TemplateAlpha(t, c))]]

RECURSIVE Paint(_, _, _, _)
Paint(canvas, ops, k, t) ==
    IF k > Len(ops) THEN canvas
    ELSE Paint(IF ops[k].op = "mask" THEN DestinationIn(canvas, t)
               ELSE SourceOver(canvas, ops[k]),
               ops, k + 1, t)

RenderFrame(s, n) ==
    [n |-> n,
     drawOrder |-> Ids(DrawOrder(s.layers)),
     canvas |-> Paint(BlankCanvas({"base"} \cup {s.layers[i].id : i \in 1..Len(s.layers)}),
                      DrawList(s), 1, s.template)]

\* Visibility and opacity (percent) of the layers the scene starts with
LayerLooks ==
    {[visible |-> TRUE, opacity |-> 100], [visible |-> TRUE, opacity |-> 50],
     [visible |-> FALSE, opacity |-> 100]}

InitCompositor ==
    /\ \E t \in Templates, n \in 1..MaxSceneLayers : \E looks \in [1..n -> LayerLooks] :
         scene = [template |-> t, baseColor |-> "#FF0000",
                  layers |-> [i \in 1..n |->
                      SceneLayer(LayerIds[i], looks[i].visible, looks[i].opacity,
                                 {"inside"})]]
    /\ frame = RenderFrame(scene, 0)
    /\ Idle("compositor")

\* A transform of layer i moves its node over the cells fp (inside the
\* silhouette, outside it, across its edge, or over everything); the store
\* update re-renders the canvas
TransformLayer(i, fp) ==
    /\ Only("compositor")
    /\ frame.n < MaxRenders
    /\ fp # scene.layers[i].footprint
    /\ LET moved == [scene EXCEPT !.layers[i].footprint = fp]
       IN  /\ frame' = RenderFrame(moved, frame.n + 1)
           /\ scene' = [moved EXCEPT !.layers = LayersAfterRender(moved.layers)]

\* EditorCanvas renders again with the same store
Rerender ==
    /\ Only("compositor")
    /\ frame.n < MaxRenders
    /\ frame' = RenderFrame(scene, frame.n + 1)
    /\ scene' = [scene EXCEPT !.layers = LayersAfterRender(scene.layers)]

NextCompositor ==
    \/ \E i \in 1..Len(scene.layers),
          fp \in {{"inside"}, {"outside"}, {"inside", "edge"}, Cells} : TransformLayer(i, fp)
    \/ Rerender

SpecCompositor == InitCompositor /\ [][NextCompositor]_vars

\* C12: in the rendered canvas no layer contributes to a cell where the
\* template is transparent, whatever cells the layer's transform puts it on,
\* and no layer contributes more to a cell than the template's alpha there.
C12_LayersStayInsideMask ==
    \A c \in Cells : \A i \in 1..Len(scene.layers) :
        LET share == frame.canvas[c][scene.layers[i].id]
        IN  /\ TemplateAlpha(scene.template, c) = Zero => share = Zero
            /\ RLeq(share, TemplateAlpha(scene.template, c))

\* A visible layer was transformed onto a transparent cell of the template
\* and shows on an opaque one.
C12_Witness ==
    /\ frame.n > 0
    /\ scene.template = "silhouette"
    /\ \E i \in 1..Len(scene.layers) :
         /\ scene.layers[i].visible /\ scene.layers[i].opacity = 100
         /\ {"inside", "outside"} \subseteq scene.layers[i].footprint
         /\ frame.canvas["inside"][scene.layers[i].id] # Zero

\* C13: every render draws the layers in the reverse of the stored sequence,
\* so a fully opaque visible layer leaves nothing of the layers stored after
\* it on the cells it covers, and the render leaves the stored sequence as
\* it was: the same layers at the same positions, nothing changed but the
\* footprint a transform wrote.
C13_DrawnInReverse ==
    [][(frame' # frame) =>
        /\ frame'.drawOrder = Reverse(Ids(scene'.layers))
        /\ \A i, j \in 1..Len(scene'.layers) : \A c \in Cells :
             (/\ i < j
              /\ scene'.layers[i].visible /\ scene'.layers[i].opacity = 100
              /\ c \in scene'.layers[i].footprint)
             => frame'.canvas[c][scene'.layers[j].id] = Zero
        /\ Len(scene'.layers) = Len(scene.layers)
        /\ \A i \in 1..Len(scene.layers) :
             [scene'.layers[i] EXCEPT !.footprint = {}]
                 = [scene.layers[i] EXCEPT !.footprint = {}]]_vars

\* Two visible layers overlap on an opaque cell, the head one fully opaque,
\* and the canvas was rendered again.
C13_Witness ==
    /\ frame.n > 0
    /\ Len(scene.layers) = 2
    /\ scene.layers[1].visible /\ scene.layers[1].opacity = 100
    /\ scene.layers[2].visible /\ scene.layers[2].opacity = 100
    /\ "inside" \in scene.layers[1].footprint \cap scene.layers[2].footprint
    /\ frame.canvas["inside"][scene.layers[1].id] = One

----------------------------------------------------------------------------
(* Loading the template image: the loadTemplate effect of EditorCanvas.    *)

Models == {"model3", "modely", "cybertruck"}

\* The loads that have not settled
Pending == {k \in 1..Len(loads) : loads[k].state = "pending"}

\* What EditorCanvas renders: the loading view until dimensions and image
\* are set, the stage after that
View ==
    IF ~templateDimensions \/ templateImage = NoImage THEN "loading" ELSE "canvas"

\* The effect starts loadTemplate() for the current model
StartLoad(ls, model) == Append(ls, [model |-> model, state |-> "pending"])

InitTemplate ==
    /\ currentModelId \in Models
    /\ templateImage = NoImage
    /\ templateDimensions = FALSE
    /\ loads = StartLoad(<<>>, currentModelId)
    /\ Idle("template")

\* The user selects another model: the effect runs again for it
SelectModel(m) ==
    /\ Only("template")
    /\ Len(loads) < MaxLoads
    /\ m # currentModelId
    /\ currentModelId' = m
    /\ loads' = StartLoad(loads, m)
    /\ UNCHANGED <<templateImage, templateDimensions>>

\* await loadImage(templateUrl) resolved: setTemplateImage(img)
ImageAfterLoad(load) == load.model

\* loadImage resolves for load k
LoadResolves(k) ==
    /\ Only("template")
    /\ k \in Pending
    /\ templateImage' = ImageAfterLoad(loads[k])
    /\ templateDimensions' = TRUE
    /\ loads' = [loads EXCEPT ![k].state = "loaded"]
    /\ UNCHANGED currentModelId

\* loadImage rejects for load k: the catch block logs to the console
LoadRejects(k) ==
    /\ Only("template")
    /\ k \in Pending
    /\ loads' = [loads EXCEPT ![k].state = "failed"]
    /\ UNCHANGED <<currentModelId, templateImage, templateDimensions>>

NextTemplate ==
    \/ \E m \in Models : SelectModel(m)
    \/ \E k \in 1..Len(loads) : LoadResolves(k)
    \/ \E k \in 1..Len(loads) : LoadRejects(k)

SpecTemplate == InitTemplate /\ [][NextTemplate]_vars

\* C14: once every template load has settled, none of them failed, the
\* template image the editor holds is the template of the current model,
\* whatever order the loads completed in.
C14_NoStaleTemplate ==
    (Pending = {} /\ \A k \in 1..Len(loads) : loads[k].state = "loaded")
        => templateImage = currentModelId

\* C19: when the last load started for the current model has failed, the
\* editor shows a load-error state, distinct from the loading view and from
\* the canvas of a loaded template.
C19_LoadErrorSurfaced ==
    (Len(loads) > 0 /\ loads[Len(loads)].state = "failed") => View = "load-error"

----------------------------------------------------------------------------
(* AIGeneratorDialog: 'Add to Canvas' (handleAddToDesign).                 *)
(* selectedIndex 0 stands for null; images are indexed from 1.             *)

GeneratedImages == <<PngUrl, PngUrl2>>

\* The layer handleAddToDesign hands to addLayer
TextureLayerOf(imageUrl) ==
    [type |-> "texture", name |-> "AI Design", src |-> imageUrl, visible |-> TRUE,
     locked |-> FALSE, opacity |-> 100, x |-> 0, y |-> 0, rotation |-> 0,
     scaleX |-> One, scaleY |-> One]

\* useEditorStore().addLayer: the new layer gets a fresh id and goes to the
\* head of the sequence
addLayer(ls, l) == <<Spread(l, [id |-> LayerIds[Len(ls) + 1]])>> \o ls

\* Mutant: the layer is added before the image has decoded
LayersAfterAdd_BeforeDecode(ls, imageUrl, decoded) == addLayer(ls, TextureLayerOf(imageUrl))

\* The store's layers when handleAddToDesign is done: addLayer runs after
\* `await loadImage(imageUrl)` and is skipped when that rejects
LayersAfterAdd(ls, imageUrl, decoded) ==
    IF decoded THEN addLayer(ls, TextureLayerOf(imageUrl)) ELSE ls

AddFailedMessage == "Failed to add design to canvas. Please try again."

InitAI ==
    /\ aiOpen = TRUE
    /\ \E sel \in 0..Len(GeneratedImages), n \in {0, Len(GeneratedImages)} :
         aiState = [loading |-> FALSE, error |-> Null,
                    images |-> SubSeq(GeneratedImages, 1, n),
                    selectedIndex |-> IF sel <= n THEN sel ELSE 0]
    /\ adds = <<>>
    /\ generations = <<>>
    /\ layers \in {<<>>, <<NewLayer("a", "rect", FALSE, 100, One)>>}
    /\ selectedLayerId = Null
    /\ activeTool = "select"
    /\ transformStartDataRef = NullStartData
    /\ gesture = NoGesture
    /\ node = NoNode
    /\ startHandle = NoHandle
    /\ endHandle = NoHandle
    /\ isDraggingHandleRef = Null
    /\ nodeOpacity = [i \in {} |-> 0]
    /\ cursor = "default"
    /\ gestures = 0
    /\ Idle("ai")

\* The user picks one of the generated images
SelectImage(i) ==
    /\ Only("ai")
    /\ aiOpen
    /\ i # aiState.selectedIndex
    /\ aiState' = [aiState EXCEPT !.selectedIndex = i]
    /\ UNCHANGED <<aiOpen, adds, generations, layers>>

\* Click on 'Add to Canvas': handleAddToDesign up to `await loadImage`
ClickAddToDesign ==
    /\ Only("ai")
    /\ aiOpen
    /\ Len(adds) < MaxAdds
    /\ aiState.selectedIndex # 0
    /\ aiState.selectedIndex <= Len(aiState.images)
    /\ adds' = Append(adds, [imageUrl |-> aiState.images[aiState.selectedIndex],
                             state |-> "pending"])
    /\ UNCHANGED <<aiOpen, aiState, generations, layers>>

\* loadImage resolved: addLayer(...), onClose()
AddDecoded(k) ==
    /\ Only("ai")
    /\ adds[k].state = "pending"
    /\ layers' = LayersAfterAdd(layers, adds[k].imageUrl, TRUE)
    /\ aiOpen' = FALSE
    /\ adds' = [adds EXCEPT ![k].state = "added"]
    /\ UNCHANGED <<aiState, generations>>

\* loadImage rejected: the catch block sets the error message
AddDecodeFailed(k) ==
    /\ Only("ai")
    /\ adds[k].state = "pending"
    /\ layers' = LayersAfterAdd(layers, adds[k].imageUrl, FALSE)
    /\ aiState' = [aiState EXCEPT !.error = AddFailedMessage]
    /\ adds' = [adds EXCEPT ![k].state = "failed"]
    /\ UNCHANGED <<aiOpen, generations>>

\* The state the dialog has before any generation and after it is opened
EmptyGeneration == [loading |-> FALSE, error |-> Null, images |-> <<>>, selectedIndex |-> 0]

\* Click on Generate (enabled while not loading): handleGenerate up to its
\* first await; without a prompt, a key or a template it only sets an error
ClickGenerate ==
    /\ Only("ai")
    /\ aiOpen
    /\ ~aiState.loading
    /\ Len(generations) < MaxGenerations
    /\ \E ready \in BOOLEAN :
          IF ready
          THEN /\ aiState' = [EmptyGeneration EXCEPT !.loading = TRUE]
               /\ generations' = Append(generations, "running")
          ELSE /\ aiState' = [aiState EXCEPT !.error = "Please enter a prompt"]
               /\ aiState' # aiState
               /\ UNCHANGED generations
    /\ UNCHANGED <<aiOpen, adds, layers>>

\* fetchWithRetry of a running generation met a 429 and reports the wait
GenerateRateLimited(k) ==
    /\ Only("ai")
    /\ generations[k] = "running"
    /\ aiState' = [aiState EXCEPT !.error = "Rate limited. Retrying"]
    /\ aiState' # aiState
    /\ UNCHANGED <<aiOpen, adds, generations, layers>>

\* The try block of handleGenerate reached its end with n processed images
GenerateSucceeds(k) ==
    /\ Only("ai")
    /\ generations[k] = "running"
    /\ \E n \in 1..Len(GeneratedImages) :
          aiState' = [loading |-> FALSE, error |-> Null,
                      images |-> SubSeq(GeneratedImages, 1, n), selectedIndex |-> 1]
    /\ generations' = [generations EXCEPT ![k] = "succeeded"]
    /\ UNCHANGED <<aiOpen, adds, layers>>

\* The catch block of handleGenerate
GenerateFails(k) ==
    /\ Only("ai")
    /\ generations[k] = "running"
    /\ aiState' = [aiState EXCEPT !.loading = FALSE,
                                  !.error = "Generation failed. Please try again."]
    /\ generations' = [generations EXCEPT ![k] = "failed"]
    /\ UNCHANGED <<aiOpen, adds, layers>>

\* Escape, a click on the backdrop or on the close button: onClose() unless
\* a generation is loading
CloseDialog ==
    /\ Only("ai")
    /\ aiOpen
    /\ ~aiState.loading
    /\ aiOpen' = FALSE
    /\ UNCHANGED <<aiState, adds, generations, layers>>

\* The editor opens the dialog again: the effect on isOpen resets the state
OpenDialog ==
    /\ Only("ai")
    /\ ~aiOpen
    /\ aiOpen' = TRUE
    /\ aiState' = EmptyGeneration
    /\ UNCHANGED <<adds, generations, layers>>

NextAI ==
    \/ \E i \in 1..Len(aiState.images) : SelectImage(i)
    \/ ClickAddToDesign
    \/ \E k \in 1..Len(adds) : AddDecoded(k)
    \/ \E k \in 1..Len(adds) : AddDecodeFailed(k)
    \/ ClickGenerate
    \/ \E k \in 1..Len(generations) : GenerateRateLimited(k)
    \/ \E k \in 1..Len(generations) : GenerateSucceeds(k)
    \/ \E k \in 1..Len(generations) : GenerateFails(k)
    \/ CloseDialog
    \/ OpenDialog

SpecAI == InitAI /\ [][NextAI]_vars

\* Every request and every image decode of a running generation settles
SpecAILive ==
    /\ SpecAI
    /\ \A k \in 1..MaxGenerations :
          WF_vars(k <= Len(generations) /\ (GenerateSucceeds(k) \/ GenerateFails(k)))

\* C20: a step in which the chosen image fails to decode adds no layer,
\* leaves the dialog as open as it was and sets an error message; the
\* layers change only in a step in which an image decoded, and that step
\* puts exactly one new texture layer with that image at the head.
C20_AddIsAllOrNothing ==
    [][/\ (\E k \in 1..Len(adds) : adds[k].state = "pending" /\ adds'[k].state = "failed")
          => /\ layers' = layers
             /\ aiOpen' = aiOpen
             /\ aiState'.error # Null
       /\ layers' # layers
          => \E k \in 1..Len(adds) :
               /\ adds[k].state = "pending" /\ adds'[k].state = "added"
               /\ Len(layers') = Len(layers) + 1
               /\ SubSeq(layers', 2, Len(layers')) = layers
               /\ layers'[1].type = "texture" /\ layers'[1].src = adds[k].imageUrl]_vars

\* One add failed to decode and left the project alone with the dialog
\* open, and another one added its layer.
C20_Witness ==
    /\ \E k \in 1..Len(adds) : adds[k].state = "failed"
    /\ \E k \in 1..Len(adds) : adds[k].state = "added"
    /\ aiState.error = AddFailedMessage
    /\ Len(layers) > 0 /\ layers[1].type = "texture"

\* The run k of handleGenerate ends in this step, with the given outcome
GenerationEnds(k, outcome) ==
    /\ k <= Len(generations)
    /\ generations[k] = "running"
    /\ generations'[k] = outcome

\* C35: every generation run that set loading eventually ends, and the step
\* that ends it sets loading to false; while loading, Escape, the backdrop
\* and the close button do not close the dialog; selectedIndex is always
\* null or an index into images; after a success images is non-empty and
\* selectedIndex is the first image, after a failure images is empty and
\* selectedIndex is null.
C35_GenerationSettles ==
    /\ \A k \in 1..MaxGenerations :
          (k <= Len(generations) /\ generations[k] = "running")
              ~> (k <= Len(generations) /\ generations[k] # "running")
    /\ [][\A k \in 1..MaxGenerations :
            /\ (GenerationEnds(k, "succeeded") \/ GenerationEnds(k, "failed"))
                  => ~aiState'.loading
            /\ GenerationEnds(k, "succeeded")
                  => aiState'.images # <<>> /\ aiState'.selectedIndex = 1
            /\ GenerationEnds(k, "failed")
                  => aiState'.images = <<>> /\ aiState'.selectedIndex = 0]_vars
    /\ [][(aiState.loading /\ aiOpen /\ ~aiOpen') => ~CloseDialog]_vars
    /\ [](aiState.selectedIndex \in 0..Len(aiState.images))

----------------------------------------------------------------------------
(* PublishDialog.handlePublish and SaveDialog.handleSave.  A handler runs  *)
(* as one step up to its first await on something outside the page (the    *)
(* zip worker, the network); the promise of exportPngAsDataUrl is settled  *)
(* inside its executor, so the code after `await exportPngAsDataUrl(...)`  *)
(* runs before any other event.                                            *)

\* The raster stage.toDataURL gives: it shows the layers the store holds
Captured(store, outcome) ==
    IF outcome = "dataUrl" THEN [kind |-> "dataUrl", shows |-> store.layers]
    ELSE [kind |-> "empty", shows |-> <<>>]

\* getSerializedState()
ProjectOf(store) == [name |-> store.projectName, layers |-> store.layers]

NoSnapshot == [name |-> "", layers |-> <<>>]

\* Mutant: the preview is used without the check
PreviewUsable_NotChecked(p) == TRUE

\* `if (!preview)`: null and '' are falsy
PreviewUsable(p) == p.kind = "dataUrl"

\* Mutant: the Publish button stays enabled during an upload
PublishEnabled_IgnoresUploading(d) == d.title # ""

\* The Publish button: disabled={uploading || !title.trim()}
PublishEnabled(d) == ~(d.uploading \/ d.title = "")

\* The Save button: disabled={saving || success || !editingName.trim()}
SaveEnabled(d) == ~(d.saving \/ d.success \/ d.editingName = "")

\* SaveDialog's effect, run when isOpen, projectName or designId changed: with
\* the dialog open and a stage, it captures the preview again, resets name,
\* error and success, and starts loadMeta for a design that has an id or
\* resets the visibility to private
SaveEffect(d, store, mounted, outcome) ==
    IF d.isOpen /\ mounted
    THEN [d EXCEPT !.previewDataUrl = IF outcome = "throws" THEN @
                                      ELSE Captured(store, outcome),
                   !.editingName = store.projectName,
                   !.error = Null, !.success = FALSE,
                   !.visibility = IF store.designId # Null THEN @ ELSE "private",
                   !.metaPending = store.designId # Null]
    ELSE d

FinalVisibility_AsSelected(user, visibility) == visibility

\* finalVisibility
FinalVisibility(user, visibility) ==
    IF user.signedIn /\ ~user.emailConfirmed THEN "private" ELSE visibility

\* The saveProjectToSupabase call handleSave makes: the design id and the
\* visibility it hands over, with the user and the selection at that time
SaveRequest(d, store) ==
    [designId |-> store.designId,
     visibility |-> FinalVisibility(d.user, d.visibility),
     user |-> d.user, selected |-> d.visibility]

\* One call of handlePublish or handleSave
Attempt(kind, pc, preview, serialized, snapshot, uploads, error, before, left) ==
    [kind |-> kind, pc |-> pc, preview |-> preview, serialized |-> serialized,
     project |-> snapshot, uploads |-> uploads, error |-> error,
     before |-> before, left |-> left]

\* The call ended in the handler's first step with an error message
Refused(kind, preview, error, store) ==
    Attempt(kind, "failed", preview, FALSE, NoSnapshot, 0, error, store, store)

InitDialog ==
    /\ storeState = [projectName |-> "Wrap A", designId |-> Null, saved |-> FALSE,
                     layers |-> <<LayerIds[1]>>]
    /\ stageRef \in BOOLEAN
    /\ publishDialog = ClosedPublishDialog
    /\ saveDialog = [ClosedSaveDialog EXCEPT !.editingName = storeState.projectName]
    /\ attempts = <<>>
    /\ pendingAdd \in BOOLEAN
    /\ Idle("dialog")

\* EditorCanvas has rendered its <Stage>
StageMounts ==
    /\ Only("dialog")
    /\ ~stageRef
    /\ stageRef' = TRUE
    /\ UNCHANGED <<storeState, publishDialog, saveDialog, attempts, pendingAdd>>

\* The image of the pending handleAddToDesign decoded: addLayer(...)
AddLands ==
    /\ Only("dialog")
    /\ pendingAdd
    /\ pendingAdd' = FALSE
    /\ storeState' = [storeState EXCEPT
                         !.layers = <<LayerIds[Len(storeState.layers) + 1]>> \o @,
                         !.saved = FALSE]
    /\ UNCHANGED <<stageRef, publishDialog, saveDialog, attempts>>

\* The Publish dialog opens: the effect resets title, error and success
OpenPublish ==
    /\ Only("dialog")
    /\ ~publishDialog.isOpen /\ ~saveDialog.isOpen
    /\ publishDialog' = [publishDialog EXCEPT !.isOpen = TRUE,
                            !.title = storeState.projectName,
                            !.error = Null, !.success = Null]
    /\ UNCHANGED <<storeState, stageRef, saveDialog, attempts, pendingAdd>>

EditTitle(t) ==
    /\ Only("dialog")
    /\ publishDialog.isOpen
    /\ t # publishDialog.title
    /\ publishDialog' = [publishDialog EXCEPT !.title = t]
    /\ UNCHANGED <<storeState, stageRef, saveDialog, attempts, pendingAdd>>

\* handlePublish from the click to `await projectToBlob(projectData)`
ClickPublish ==
    /\ Only("dialog")
    /\ publishDialog.isOpen
    /\ PublishEnabled(publishDialog)
    /\ Len(attempts) < MaxOps
    /\ IF ~stageRef
       THEN /\ publishDialog' = [publishDialog EXCEPT !.error = "Canvas not available"]
            /\ attempts' = Append(attempts,
                   Refused("publish", NoPreview, "Canvas not available", storeState))
       ELSE \E outcome \in CaptureOutcomes :
            LET preview == IF outcome = "throws" THEN NoPreview
                           ELSE Captured(storeState, outcome)
            IN  IF outcome = "throws" \/ ~PreviewUsable(preview)
                THEN /\ publishDialog' = [publishDialog EXCEPT
                            !.error = "Failed to export preview image",
                            !.uploading = FALSE]
                     /\ attempts' = Append(attempts,
                            Refused("publish", preview, "Failed to export preview image",
                                    storeState))
                ELSE /\ publishDialog' = [publishDialog EXCEPT !.error = Null,
                                                               !.uploading = TRUE]
                     /\ attempts' = Append(attempts,
                            Attempt("publish", "serializing", preview, TRUE,
                                    ProjectOf(storeState), 0, Null, storeState, storeState))
    /\ UNCHANGED <<storeState, stageRef, saveDialog, pendingAdd>>

\* projectToBlob settled: publishDesign(...) is called, or the catch block runs
PublishBlobSettles(k, ok) ==
    /\ Only("dialog")
    /\ attempts[k].kind = "publish" /\ attempts[k].pc = "serializing"
    /\ IF ok
       THEN /\ attempts' = [attempts EXCEPT ![k].pc = "uploading", ![k].uploads = @ + 1]
            /\ UNCHANGED publishDialog
       ELSE /\ attempts' = [attempts EXCEPT ![k].pc = "failed",
                                            ![k].error = "Failed to publish design"]
            /\ publishDialog' = [publishDialog EXCEPT !.error = "Failed to publish design",
                                                      !.uploading = FALSE]
    /\ UNCHANGED <<storeState, stageRef, saveDialog, pendingAdd>>

\* publishDesign settled: success message and close timer, or the catch block
PublishSettles(k, ok) ==
    /\ Only("dialog")
    /\ attempts[k].kind = "publish" /\ attempts[k].pc = "uploading"
    /\ IF ok
       THEN /\ attempts' = [attempts EXCEPT ![k].pc = "done"]
            /\ publishDialog' = [publishDialog EXCEPT !.success = "Design published!"]
       ELSE /\ attempts' = [attempts EXCEPT ![k].pc = "failed",
                                            ![k].error = "Failed to publish design"]
            /\ publishDialog' = [publishDialog EXCEPT !.error = "Failed to publish design",
                                                      !.uploading = FALSE]
    /\ UNCHANGED <<storeState, stageRef, saveDialog, pendingAdd>>

\* onClose(): the Cancel button (disabled={uploading}) or the timer set on
\* success
ClosePublish ==
    /\ Only("dialog")
    /\ publishDialog.isOpen
    /\ ~publishDialog.uploading \/ publishDialog.success # Null
    /\ publishDialog' = [publishDialog EXCEPT !.isOpen = FALSE]
    /\ UNCHANGED <<storeState, stageRef, saveDialog, attempts, pendingAdd>>

\* The Save dialog opens: with a stage, the effect captures the preview and
\* resets name, error and success
OpenSave ==
    /\ Only("dialog")
    /\ ~publishDialog.isOpen /\ ~saveDialog.isOpen
    /\ \E outcome \in CaptureOutcomes :
           saveDialog' = SaveEffect([saveDialog EXCEPT !.isOpen = TRUE],
                                    storeState, stageRef, outcome)
    /\ UNCHANGED <<storeState, stageRef, publishDialog, attempts, pendingAdd>>

EditName(n) ==
    /\ Only("dialog")
    /\ saveDialog.isOpen
    /\ ~(saveDialog.saving \/ saveDialog.success)
    /\ n # saveDialog.editingName
    /\ saveDialog' = [saveDialog EXCEPT !.editingName = n]
    /\ UNCHANGED <<storeState, stageRef, publishDialog, attempts, pendingAdd>>

\* handleSave from the click to `await saveProjectToSupabase(...)`
ClickSave ==
    /\ Only("dialog")
    /\ saveDialog.isOpen
    /\ SaveEnabled(saveDialog)
    /\ Len(attempts) < MaxOps
    /\ IF ~stageRef
       THEN /\ saveDialog' = [saveDialog EXCEPT !.error = "Canvas not available"]
            /\ attempts' = Append(attempts,
                   Refused("save", NoPreview, "Canvas not available", storeState))
            /\ UNCHANGED storeState
       ELSE \E outcome \in CaptureOutcomes :
            LET cached == PreviewUsable(saveDialog.previewDataUrl)
                preview == IF cached THEN saveDialog.previewDataUrl
                           ELSE IF outcome = "throws" THEN NoPreview
                           ELSE Captured(storeState, outcome)
                renamed == [storeState EXCEPT !.projectName = saveDialog.editingName]
            IN  IF ~cached /\ (outcome = "throws" \/ ~PreviewUsable(preview))
                THEN /\ saveDialog' = [saveDialog EXCEPT
                            !.error = "Failed to generate preview image",
                            !.saving = FALSE]
                     /\ attempts' = Append(attempts,
                            Refused("save", preview, "Failed to generate preview image",
                                    storeState))
                     /\ UNCHANGED storeState
                ELSE /\ \E again \in CaptureOutcomes :
                          LET d == [saveDialog EXCEPT !.error = Null, !.saving = TRUE,
                                      !.previewDataUrl = preview,
                                      !.requests = Append(@, SaveRequest(saveDialog,
                                                                         storeState))]
                          IN  saveDialog' = IF renamed = storeState THEN d
                                            ELSE SaveEffect(d, renamed, stageRef, again)
                     /\ storeState' = renamed
                     /\ attempts' = Append(attempts,
                            Attempt("save", "uploading", preview, TRUE, ProjectOf(renamed),
                                    1, Null, storeState, renamed))
    /\ UNCHANGED <<stageRef, publishDialog, pendingAdd>>

\* saveProjectToSupabase settled: setDesignId, markAsSaved and the close
\* timer, or the catch block
SaveSettles(k, ok) ==
    /\ Only("dialog")
    /\ attempts[k].kind = "save" /\ attempts[k].pc = "uploading"
    /\ IF ok
       THEN /\ attempts' = [attempts EXCEPT ![k].pc = "done"]
            /\ storeState' = [storeState EXCEPT !.designId = "design-1", !.saved = TRUE]
            /\ \E again \in CaptureOutcomes :
                 LET d == [saveDialog EXCEPT !.success = TRUE, !.closeTimer = TRUE]
                 IN  saveDialog' = IF storeState.designId = "design-1" THEN d
                                   ELSE SaveEffect(d, storeState', stageRef, again)
       ELSE /\ attempts' = [attempts EXCEPT ![k].pc = "failed",
                                            ![k].error = "Failed to save design"]
            /\ saveDialog' = [saveDialog EXCEPT !.error = "Failed to save design",
                                                !.saving = FALSE]
            /\ UNCHANGED storeState
    /\ UNCHANGED <<stageRef, publishDialog, pendingAdd>>

\* onClose(): the close buttons (disabled={saving}) or the timer set on success
\* (success itself may have been reset by the effect by then)
CloseSave ==
    /\ Only("dialog")
    /\ saveDialog.isOpen
    /\ ~saveDialog.saving \/ saveDialog.closeTimer
    /\ saveDialog' = [saveDialog EXCEPT !.isOpen = FALSE, !.closeTimer = FALSE]
    /\ UNCHANGED <<storeState, stageRef, publishDialog, attempts, pendingAdd>>

\* The visibility buttons, shown unless the user is signed in with an email
\* that is not confirmed: disabled={saving || success || loadingMeta}
SetVisibility(v) ==
    /\ Only("dialog")
    /\ saveDialog.isOpen
    /\ ~(saveDialog.user.signedIn /\ ~saveDialog.user.emailConfirmed)
    /\ ~(saveDialog.saving \/ saveDialog.success \/ saveDialog.metaPending)
    /\ v # saveDialog.visibility
    /\ saveDialog' = [saveDialog EXCEPT !.visibility = v]
    /\ UNCHANGED <<storeState, stageRef, publishDialog, attempts, pendingAdd>>

\* The query of loadMeta settled: with a row,
\* setVisibility(data.visibility || 'private'); data is Null without one
MetaLoads(data) ==
    /\ Only("dialog")
    /\ saveDialog.metaPending
    /\ saveDialog' = [saveDialog EXCEPT
            !.visibility = IF data = Null THEN @ ELSE data,
            !.metaPending = FALSE]
    /\ UNCHANGED <<storeState, stageRef, publishDialog, attempts, pendingAdd>>

\* The user follows the confirmation link: useAuth() returns the user with
\* email_confirmed_at set
ConfirmEmail ==
    /\ Only("dialog")
    /\ saveDialog.user.signedIn /\ ~saveDialog.user.emailConfirmed
    /\ saveDialog' = [saveDialog EXCEPT !.user.emailConfirmed = TRUE]
    /\ UNCHANGED <<storeState, stageRef, publishDialog, attempts, pendingAdd>>

NextDialog ==
    \/ StageMounts
    \/ AddLands
    \/ OpenPublish
    \/ \E t \in {storeState.projectName, ""} : EditTitle(t)
    \/ ClickPublish
    \/ \E k \in 1..Len(attempts), ok \in BOOLEAN : PublishBlobSettles(k, ok)
    \/ \E k \in 1..Len(attempts), ok \in BOOLEAN : PublishSettles(k, ok)
    \/ ClosePublish
    \/ OpenSave
    \/ \E n \in {"Wrap A", "Wrap B"} : EditName(n)
    \/ ClickSave
    \/ \E k \in 1..Len(attempts), ok \in BOOLEAN : SaveSettles(k, ok)
    \/ CloseSave

SpecDialog == InitDialog /\ [][NextDialog]_vars

\* The Save dialog alone, with the user and the visibility of the design; the
\* project is new or was opened from a stored design
InitSave ==
    /\ \E id \in {Null, "design-1"} :
          storeState = [projectName |-> "Wrap A", designId |-> id, saved |-> FALSE,
                        layers |-> <<LayerIds[1]>>]
    /\ stageRef \in BOOLEAN
    /\ publishDialog = ClosedPublishDialog
    /\ \E u \in Users :
          saveDialog = [ClosedSaveDialog EXCEPT !.editingName = storeState.projectName,
                                                !.user = u]
    /\ attempts = <<>>
    /\ pendingAdd = FALSE
    /\ Idle("dialog")

NextSave ==
    \/ StageMounts
    \/ OpenSave
    \/ \E n \in {"Wrap A", "Wrap B"} : EditName(n)
    \/ \E v \in {"public", "private"} : SetVisibility(v)
    \/ \E data \in {Null, "public", "private"} : MetaLoads(data)
    \/ ConfirmEmail
    \/ ClickSave
    \/ \E k \in 1..Len(attempts), ok \in BOOLEAN : SaveSettles(k, ok)
    \/ CloseSave

SpecSave == InitSave /\ [][NextSave]_vars

\* C39: every design that a signed-in user whose email is not confirmed saves
\* from the Save dialog is handed to the storage with visibility 'private',
\* whatever visibility the dialog holds, selected or loaded from the design.
C39_UnconfirmedSavesPrivate ==
    \A i \in 1..Len(saveDialog.requests) :
        LET r == saveDialog.requests[i]
        IN  (r.user.signedIn /\ ~r.user.emailConfirmed) => r.visibility = "private"

\* A user with an unconfirmed email updated a design whose loaded visibility
\* was public
C39_Witness ==
    /\ Len(saveDialog.requests) = 1
    /\ saveDialog.requests[1].user = [signedIn |-> TRUE, emailConfirmed |-> FALSE]
    /\ saveDialog.requests[1].selected = "public"
    /\ saveDialog.requests[1].designId = "design-1"
    /\ saveDialog.requests[1].visibility = "private"

\* C40: the store's design id changes and its saved marker is set only in
\* the step in which a save succeeds, the design id is then the id the
\* storage returned and every later save hands it over; and when the dialog
\* opens again after a save, the saving flag is not set.
C40_SaveRepeatable ==
    /\ [][(storeState'.designId # storeState.designId
              \/ (storeState'.saved /\ ~storeState.saved))
            => \E k \in 1..Len(attempts) :
                  /\ attempts[k].kind = "save" /\ attempts[k].pc = "uploading"
                  /\ attempts'[k].pc = "done"
                  /\ storeState'.designId = "design-1"]_vars
    /\ []((\E k \in 1..Len(attempts) :
                attempts[k].kind = "save" /\ attempts[k].pc = "done")
            => storeState.designId = "design-1")
    /\ [][Len(saveDialog'.requests) > Len(saveDialog.requests)
            => saveDialog'.requests[Len(saveDialog'.requests)].designId
                   = storeState.designId]_vars
    /\ [][(~saveDialog.isOpen /\ saveDialog'.isOpen) => ~saveDialog'.saving]_vars

\* The attempts of one dialog that are between their click and their end
InFlight(kind) ==
    {k \in 1..Len(attempts) :
        attempts[k].kind = kind /\ attempts[k].pc \in {"serializing", "uploading"}}

\* C15: at any time at most one handlePublish call and at most one
\* handleSave call is between its click and its end.
C15_OneInFlight ==
    /\ Cardinality(InFlight("publish")) <= 1
    /\ Cardinality(InFlight("save")) <= 1

\* A publish is in flight after an earlier publish attempt has failed at the
\* storage collaborator, the button having been enabled again.
C15_Witness ==
    /\ Len(attempts) = 2
    /\ attempts[1].kind = "publish" /\ attempts[1].pc = "failed" /\ attempts[1].uploads = 1
    /\ attempts[2].kind = "publish" /\ attempts[2].pc = "uploading"

\* C16: an attempt that serialized the project or called the storage
\* collaborator holds a preview raster; an attempt without one (no stage, or
\* a capture that gave null or nothing) has failed with an error message,
\* has serialized nothing and uploaded nothing.
C16_NoUploadWithoutPreview ==
    \A k \in 1..Len(attempts) :
        LET a == attempts[k]
        IN  /\ (a.serialized \/ a.uploads > 0) => a.preview.kind = "dataUrl"
            /\ a.preview.kind # "dataUrl" =>
                 /\ a.pc = "failed" /\ a.error # Null
                 /\ ~a.serialized /\ a.project = NoSnapshot /\ a.uploads = 0

\* A save was refused for want of a stage, and a later save, its preview
\* captured by handleSave itself, reached the storage collaborator.
C16_Witness ==
    /\ Len(attempts) = 2
    /\ attempts[1].kind = "save" /\ attempts[1].error = "Canvas not available"
    /\ attempts[2].kind = "save" /\ attempts[2].uploads = 1
    /\ attempts[2].preview.kind = "dataUrl"

\* C17: in the step in which a save or publish attempt fails, the store is
\* not changed, the attempt has left the store (project name, design id,
\* saved marker, layers) as it found it, it carries an error message and it
\* has called the storage collaborator at most once.
C17_FailureLeavesStore ==
    [][\A k \in 1..Len(attempts') :
          (attempts'[k].pc = "failed" /\ (k > Len(attempts) \/ attempts[k].pc # "failed"))
          => /\ storeState' = storeState
             /\ attempts'[k].left = attempts'[k].before
             /\ attempts'[k].uploads <= 1
             /\ attempts'[k].error # Null]_vars

\* C18: every attempt that called the storage collaborator hands it a
\* preview that shows the layers of the project it hands over with it.
C18_PreviewMatchesProject ==
    \A k \in 1..Len(attempts) :
        attempts[k].uploads > 0 => attempts[k].preview.shows = attempts[k].project.layers

----------------------------------------------------------------------------
\* Locking, click-through, drag feedback, line handles and the transform
\* snapshot of the canvas

\* C21: a locked layer never accepts drag input: under every tool no drag of
\* its node and no drag of a handle of a locked line begins, so no step
\* changes its position or its points; locked or not, its node stays rendered
C21_LockedNeverDragged ==
    [][\A i \in 1..Len(layers) :
          layers[i].locked =>
              /\ ~(gesture'.kind \in {"drag", "handle"} /\ gesture'.id = layers[i].id)
              /\ i <= Len(layers')
              /\ layers'[i].x = layers[i].x
              /\ layers'[i].y = layers[i].y
              /\ Get(layers'[i], "points") = Get(layers[i], "points")
              /\ layers[i].id \in DOMAIN nodeOpacity]_vars

\* A locked, selected line whose handles are shown, while another layer is
\* being dragged
C21_Witness ==
    /\ Len(layers) = 2
    /\ layers[1].locked
    /\ layers[1].type = "line"
    /\ selectedLayerId = layers[1].id
    /\ startHandle.mounted
    /\ gesture.kind = "drag"
    /\ gesture.id = layers[2].id
    /\ layers[1].x = 0

\* C22 (as stated): with the fill tool active a click on a fill layer never
\* changes the selection
C22_FillClickKeepsSelection ==
    [][\A i \in 1..Len(layers) : \A under \in {0} \cup ((i + 1)..Len(layers)) :
          (activeTool = "fill" /\ layers[i].type = "fill" /\ ClickAt(i, under))
              => selectedLayerId' = selectedLayerId]_vars

\* C22 (amended): with the fill tool active a click on a fill layer never
\* selects that fill layer: it is delivered to what lies beneath, which
\* becomes the selection; with any other tool the click selects the fill layer
C22_FillClickThrough ==
    [][\A i \in 1..Len(layers) : \A under \in {0} \cup ((i + 1)..Len(layers)) :
          (layers[i].type = "fill" /\ ClickAt(i, under)) =>
              IF activeTool = "fill"
              THEN under # 0 /\ selectedLayerId' = layers[under].id
              ELSE selectedLayerId' = layers[i].id]_vars

\* The fill tool is active and the layer beneath the fill layer is selected
C22_Witness ==
    /\ Len(layers) = 2
    /\ activeTool = "fill"
    /\ layers[1].type = "fill"
    /\ selectedLayerId = layers[2].id

\* C23: once no gesture is in progress, the live opacity of every node is
\* the persisted opacity of its layer
C23_OpacityRestored ==
    gesture = NoGesture =>
        \A i \in 1..Len(layers) : nodeOpacity[layers[i].id] = layers[i].opacity

\* C27: during a drag of the selected line, after every dragmove each handle
\* is at the line node's live position plus the stored pair of its endpoint
C27_HandlesFollowLine ==
    [][(/\ gesture.kind = "drag"
        /\ gesture'.kind = "drag"
        /\ selectedLayerId = gesture.id
        /\ HandlesShown(layers, selectedLayerId)) =>
          LET l == layers[Find(layers, gesture.id)]
          IN  /\ startHandle' = HandleAt(Pos(node'.x + l.points[1], node'.y + l.points[2]))
              /\ endHandle' = HandleAt(Pos(node'.x + l.points[3], node'.y + l.points[4]))]_vars

\* The selected line's node has been moved away from its stored position
C27_Witness ==
    /\ gesture.kind = "drag"
    /\ selectedLayerId = gesture.id
    /\ HandlesShown(layers, selectedLayerId)
    /\ node.x # layers[Find(layers, gesture.id)].x
    /\ startHandle.x = node.x + layers[Find(layers, gesture.id)].points[1]

\* C28: the dragging marker is set exactly while a handle drag is in
\* progress and names the dragged handle; during such a drag every move
\* changes the store and the handle that is not dragged stays where it was
C28_MarkerIsGestureScoped ==
    [][/\ (isDraggingHandleRef' # Null) <=> (gesture'.kind = "handle")
       /\ gesture'.kind = "handle" => isDraggingHandleRef' = gesture'.which
       /\ (gesture.kind = "handle" /\ gesture'.kind = "handle") =>
             /\ gesture.which = "start" => endHandle' = endHandle
             /\ gesture.which = "end" => startHandle' = startHandle
             /\ layers' # layers]_vars

\* A handle drag that changed the points has ended
C28_Witness ==
    /\ gesture = NoGesture
    /\ isDraggingHandleRef = Null
    /\ gestures > 0
    /\ \E i \in 1..Len(layers) :
          /\ layers[i].type = "line"
          /\ selectedLayerId = layers[i].id
          /\ layers[i].x = 0
          /\ endHandle # HandleAt(Pos(3, 4))
          /\ endHandle = HandleAt(EndPos(layers[i]))

\* C29: after every handle drag move the persisted pair of the dragged
\* endpoint is the handle's absolute position minus the layer's persisted
\* position
C29_PointsRelativeToLayer ==
    [][\A which \in {"start", "end"} :
          IsHandleMove(which) =>
              LET l == layers'[Find(layers', gesture.id)]
                  h == IF which = "start" THEN startHandle' ELSE endHandle'
                  k == IF which = "start" THEN 1 ELSE 3
              IN  /\ l.points[k] = h.x - l.x
                  /\ l.points[k + 1] = h.y - l.y]_vars

\* The end handle of a line that was dragged away from the origin is being
\* dragged
C29_Witness ==
    /\ gesture.kind = "handle"
    /\ gesture.which = "end"
    /\ LET l == layers[Find(layers, gesture.id)]
       IN  /\ l.x # 0
           /\ l.points[3] = endHandle.x - l.x
           /\ l.points[3] # endHandle.x

\* C30: the pre-transform snapshot is null whenever no transform is in
\* progress, also after a transformEnd whose layer no longer exists, and
\* during a transform it is the snapshot of the transformed layer as it was
\* when the gesture started
C30_SnapshotIsGestureScoped ==
    /\ gesture.kind # "transform" => transformStartDataRef = NullStartData
    /\ gesture.kind = "transform" =>
          /\ transformStartDataRef.layerId = gesture.id
          /\ transformStartDataRef.width = Get(gesture.start, "width")
          /\ transformStartDataRef.height = Get(gesture.start, "height")
          /\ transformStartDataRef.scaleX = OrElse(gesture.start.scaleX, One)
          /\ transformStartDataRef.scaleY = OrElse(gesture.start.scaleY, One)

\* A second transform has ended, on a project whose first transformed layer
\* was deleted during its gesture
C30_Witness ==
    /\ gesture = NoGesture
    /\ transformStartDataRef = NullStartData
    /\ gestures = 2
    /\ Len(layers) = 1
    /\ layers[1].type = "rect"
    /\ layers[1].width # <<200, 1>>

----------------------------------------------------------------------------
(* publishDesign: preview upload, project upload, record insert.           *)

\* What one request to the backend does: it succeeds, it resolves with an
\* error, or the call throws (network failure)
RequestOutcomes == {"ok", "error", "throws"}

\* Mutant: the error of the project upload is not looked at
TryPublish_IgnoresProjectError(designId, o) ==
    IF o.fetch = "throws" THEN [done |-> <<>>, out |-> "throws"]
    ELSE IF o.preview # "ok" THEN [done |-> <<>>, out |-> o.preview]
    ELSE LET previewUp == <<[op |-> "upload", path |-> "preview", id |-> designId]>>
             projectUp == IF o.project = "ok"
                          THEN <<[op |-> "upload", path |-> "projects", id |-> designId]>>
                          ELSE <<>>
         IN  IF o.insert # "ok" THEN [done |-> previewUp \o projectUp, out |-> o.insert]
             ELSE [done |-> previewUp \o projectUp
                               \o <<[op |-> "insert", path |-> "designs", id |-> designId]>>,
                   out |-> "ok"]

\* The try block of publishDesign: the requests that succeeded, in order, and
\* how the block is left ("ok": its last return; "error": the return after a
\* request that resolved with an error; "throws": an exception)
TryPublish(designId, o) ==
    LET previewUp == [op |-> "upload", path |-> "preview", id |-> designId]
        projectUp == [op |-> "upload", path |-> "projects", id |-> designId]
        record == [op |-> "insert", path |-> "designs", id |-> designId]
    IN  IF o.fetch = "throws" THEN [done |-> <<>>, out |-> "throws"]
        ELSE IF o.preview # "ok" THEN [done |-> <<>>, out |-> o.preview]
        ELSE IF o.project # "ok" THEN [done |-> <<previewUp>>, out |-> o.project]
        ELSE IF o.insert # "ok" THEN [done |-> <<previewUp, projectUp>>, out |-> o.insert]
        ELSE [done |-> <<previewUp, projectUp, record>>, out |-> "ok"]

\* What publishDesign returns for the way its try block was left; the catch
\* clause returns the thrown value as the error
PublishResult(designId, out) ==
    CASE out = "ok"     -> [designId |-> designId, error |-> Null]
      [] out = "error"  -> [designId |-> "", error |-> "request error"]
      [] out = "throws" -> [designId |-> "", error |-> "thrown error"]
      [] OTHER          -> [designId |-> "", error |-> "Supabase not configured"]

InitPublish ==
    /\ backend = <<>>
    /\ publishes = <<>>
    /\ Idle("publish")

\* One call of publishDesign, from entry until its promise settles;
\* crypto.randomUUID() gives an identifier no earlier call had
publishDesign ==
    /\ Only("publish")
    /\ Len(publishes) < MaxPublishes
    /\ \E supabase \in BOOLEAN :
       \E o \in [fetch : {"ok", "throws"}, preview : RequestOutcomes,
                 project : RequestOutcomes, insert : RequestOutcomes] :
          LET designId == "design-" \o ToString(Len(publishes) + 1)
              run == IF supabase THEN TryPublish(designId, o)
                     ELSE [done |-> <<>>, out |-> "not configured"]
          IN  /\ backend' = backend \o run.done
              /\ publishes' = Append(publishes,
                     [id |-> designId, settled |-> "fulfilled",
                      result |-> PublishResult(designId, run.out)])

NextPublish == publishDesign

SpecPublish == InitPublish /\ [][NextPublish]_vars

\* The requests of one design that succeeded, in order
DoneFor(id) ==
    LET own == SelectSeq(backend, LAMBDA b : b.id = id)
    IN  [k \in 1..Len(own) |-> own[k].path]

\* C25: publishDesign never throws; it returns a non-empty designId with a
\* null error only when the preview upload, the project upload and the
\* record insert all succeeded, in that order, and otherwise an empty
\* designId with a non-null error; no record is inserted unless both uploads
\* succeeded before it.
C25_PublishAllOrNothing ==
    \A k \in 1..Len(publishes) :
        LET p == publishes[k]
        IN  /\ p.settled = "fulfilled"
            /\ (p.result.designId # "") <=> (p.result.error = Null)
            /\ p.result.designId # "" =>
                  /\ p.result.designId = p.id
                  /\ DoneFor(p.id) = <<"preview", "projects", "designs">>
            /\ p.result.designId = "" =>
                  DoneFor(p.id) \in {<<>>, <<"preview">>, <<"preview", "projects">>}

\* A call that failed at the project upload, then one that published
C25_Witness ==
    /\ Len(publishes) >= 2
    /\ publishes[1].result.designId = ""
    /\ DoneFor(publishes[1].id) = <<"preview">>
    /\ publishes[2].result.error = Null
    /\ DoneFor(publishes[2].id) = <<"preview", "projects", "designs">>

----------------------------------------------------------------------------
(* getGltfUrl: the 3D model file of a vehicle folder.                      *)

Folders == {"modely", "model3"}

\* The files a build can find under src/assets/wraps/<folder>/<sub>/, in the
\* order of the glob tables' keys
AssetPaths ==
    <<[folder |-> "model3", sub |-> "", file |-> "vehicle", ext |-> "glb"],
      [folder |-> "model3", sub |-> "3D", file |-> "scene", ext |-> "gltf"],
      [folder |-> "model3", sub |-> "", file |-> "template", ext |-> "png"],
      [folder |-> "modely", sub |-> "3D", file |-> "scene", ext |-> "gltf"],
      [folder |-> "modely", sub |-> "Y_High", file |-> "ModelY_High", ext |-> "glb"]>>

\* import.meta.glob('../assets/wraps/**/*.glb')
glbModules(files) == SelectSeq(AssetPaths, LAMBDA f : f \in files /\ f.ext = "glb")

\* import.meta.glob('../assets/wraps/**/3D/*.{gltf,glb}')
gltfModules(files) ==
    SelectSeq(AssetPaths, LAMBDA f : f \in files /\ f.sub = "3D" /\ f.ext \in {"gltf", "glb"})

\* getGltfUrl(folderName): the URL of a module of the glob tables, the URL
\* built for the Model Y file, or the first fallback path: the fallback loop
\* returns in its first iteration, so the `return null` after it is not reached
getGltfUrl(folderName, files) ==
    LET yHigh == AssetPaths[5]
        glb == SelectSeq(glbModules(files),
                         LAMBDA f : f.folder = folderName \/ f.sub = folderName)
        gltf == SelectSeq(gltfModules(files), LAMBDA f : f.folder = folderName)
    IN  IF folderName = "modely" /\ yHigh \in files
        THEN [isNull |-> FALSE, from |-> "glob", path |-> yHigh]
        ELSE IF folderName = "modely"
        THEN [isNull |-> FALSE, from |-> "modelyGlbUrl", path |-> yHigh]
        ELSE IF glb # <<>> THEN [isNull |-> FALSE, from |-> "glob", path |-> glb[1]]
        ELSE IF gltf # <<>> THEN [isNull |-> FALSE, from |-> "glob", path |-> gltf[1]]
        ELSE [isNull |-> FALSE, from |-> "fallback",
              path |-> [folder |-> folderName, sub |-> "", file |-> "ModelY_High",
                        ext |-> "glb"]]

InitAssets ==
    /\ assetFiles \in SUBSET {AssetPaths[i] : i \in 1..Len(AssetPaths)}
    /\ gltfCalls = <<>>
    /\ Idle("assets")

\* One call of getGltfUrl
LookupGltf ==
    /\ Only("assets")
    /\ Len(gltfCalls) < MaxLookups
    /\ \E folderName \in Folders :
          gltfCalls' = Append(gltfCalls, [folderName |-> folderName,
                                         url |-> getGltfUrl(folderName, assetFiles)])
    /\ UNCHANGED assetFiles

NextAssets == LookupGltf

SpecAssets == InitAssets /\ [][NextAssets]_vars

\* C26: getGltfUrl returns null for every folder for which no GLTF/GLB file
\* exists, and a URL only for a folder for which such a file exists.
C26_NullWithoutModelFile ==
    \A k \in 1..Len(gltfCalls) :
        gltfCalls[k].url.isNull <=>
            ~\E f \in assetFiles :
                f.folder = gltfCalls[k].folderName /\ f.ext \in {"gltf", "glb"}

----------------------------------------------------------------------------
(* The Replicate client of AIGeneratorDialog: fetchWithRetry and           *)
(* pollPrediction.                                                         *)

\* What one fetch attempt meets: a 2xx response, another response that is not
\* 429, a 429 response, a 429 response whose body has a detail that is not a
\* string (errorData.detail?.match throws inside the try block), or a
\* rejected fetch
FetchOutcomes == {"ok", "notOk", "rateLimited", "rateLimitedOddBody", "throws"}

NoError == [message |-> Null, attempt |-> 0]

\* Mutant: the response of the last attempt is returned also when it is a 429
RECURSIVE FetchLoop_ReturnsLastResponse(_, _, _, _)
FetchLoop_ReturnsLastResponse(outcomes, attempt, maxRetries, lastError) ==
    IF attempt >= maxRetries
    THEN [attempts |-> attempt, threw |-> TRUE, response |-> Null,
          error |-> IF lastError # NoError THEN lastError
                    ELSE [message |-> "Max retries exceeded", attempt |-> 0]]
    ELSE LET o == outcomes[attempt + 1]
         IN  IF o = "rateLimited" /\ attempt + 1 < maxRetries
             THEN FetchLoop_ReturnsLastResponse(outcomes, attempt + 1, maxRetries, lastError)
             ELSE IF o \in {"throws", "rateLimitedOddBody"}
             THEN FetchLoop_ReturnsLastResponse(outcomes, attempt + 1, maxRetries,
                      [message |-> "Network error", attempt |-> attempt + 1])
             ELSE [attempts |-> attempt + 1, threw |-> FALSE, response |-> o,
                   error |-> NoError]

\* The for loop of fetchWithRetry from `attempt` on (0-based, as in the
\* code); lastError names the attempt whose error it holds
RECURSIVE FetchLoop(_, _, _, _)
FetchLoop(outcomes, attempt, maxRetries, lastError) ==
    IF attempt >= maxRetries
    THEN [attempts |-> attempt, threw |-> TRUE, response |-> Null,
          error |-> IF lastError # NoError THEN lastError
                    ELSE [message |-> "Max retries exceeded", attempt |-> 0]]
    ELSE LET o == outcomes[attempt + 1]
         IN  IF o = "rateLimited"
             THEN FetchLoop(outcomes, attempt + 1, maxRetries, lastError)
             ELSE IF o \in {"throws", "rateLimitedOddBody"}
             THEN FetchLoop(outcomes, attempt + 1, maxRetries,
                            [message |-> "Network error", attempt |-> attempt + 1])
             ELSE [attempts |-> attempt + 1, threw |-> FALSE, response |-> o,
                   error |-> NoError]

fetchWithRetry(outcomes, maxRetries) == FetchLoop(outcomes, 0, maxRetries, NoError)

maxAttempts == 60

\* What one poll meets: fetchWithRetry threw, the response is not OK, or the
\* prediction has one of the statuses of the API
PollOutcomes ==
    {"throws", "notOk", "starting", "processing", "succeeded", "failed", "canceled"}

\* Mutant: the loop gives up one poll early
RECURSIVE PollLoop_OneShort(_, _)
PollLoop_OneShort(polls, polled) ==
    IF polled >= maxAttempts - 1
    THEN [polls |-> polled, threw |-> TRUE, status |-> Null,
          error |-> "Generation timed out. Please try again."]
    ELSE LET o == polls[polled + 1]
         IN  CASE o = "throws" ->
                    [polls |-> polled + 1, threw |-> TRUE, status |-> Null,
                     error |-> "Network error"]
               [] o = "notOk" ->
                    [polls |-> polled + 1, threw |-> TRUE, status |-> Null,
                     error |-> "API error"]
               [] o = "succeeded" ->
                    [polls |-> polled + 1, threw |-> FALSE, status |-> o, error |-> Null]
               [] o \in {"failed", "canceled"} ->
                    [polls |-> polled + 1, threw |-> TRUE, status |-> Null,
                     error |-> "Prediction failed"]
               [] OTHER -> PollLoop_OneShort(polls, polled + 1)

\* The while loop of pollPrediction from `attempts` = polled on
RECURSIVE PollLoop(_, _)
PollLoop(polls, polled) ==
    IF polled >= maxAttempts
    THEN [polls |-> polled, threw |-> TRUE, status |-> Null,
          error |-> "Generation timed out. Please try again."]
    ELSE LET o == polls[polled + 1]
         IN  CASE o = "throws" ->
                    [polls |-> polled + 1, threw |-> TRUE, status |-> Null,
                     error |-> "Network error"]
               [] o = "notOk" ->
                    [polls |-> polled + 1, threw |-> TRUE, status |-> Null,
                     error |-> "API error"]
               [] o = "succeeded" ->
                    [polls |-> polled + 1, threw |-> FALSE, status |-> o, error |-> Null]
               [] o \in {"failed", "canceled"} ->
                    [polls |-> polled + 1, threw |-> TRUE, status |-> Null,
                     error |-> "Prediction failed"]
               [] OTHER -> PollLoop(polls, polled + 1)

pollPrediction(polls) == PollLoop(polls, 0)

\* The answers to the polls of one prediction: a number of pending polls
\* ('starting' until `switch`, then 'processing'), then the same answer ever
\* after
PollsOf(pending, switch, last) ==
    [k \in 1..(maxAttempts + 1) |->
        IF k <= pending THEN (IF k <= switch THEN "starting" ELSE "processing")
        ELSE last]

InitReplicate ==
    /\ \/ \E maxRetries \in 0..MaxRetries :
          \E outcomes \in [1..MaxRetries -> FetchOutcomes] :
             apiInput = [fn |-> "fetchWithRetry", maxRetries |-> maxRetries,
                         outcomes |-> outcomes]
       \/ \E pending \in {0, 1, 2, maxAttempts - 1, maxAttempts} :
          \E switch \in {0, 1, maxAttempts} :
          \E last \in PollOutcomes :
             apiInput = [fn |-> "pollPrediction",
                         polls |-> PollsOf(pending, switch, last)]
    /\ apiResult = [done |-> FALSE]
    /\ Idle("replicate")

\* One call of fetchWithRetry, from entry until its promise settles
CallFetchWithRetry ==
    /\ Only("replicate")
    /\ apiInput.fn = "fetchWithRetry"
    /\ ~apiResult.done
    /\ apiResult' = [done |-> TRUE, result |-> fetchWithRetry(apiInput.outcomes,
                                                             apiInput.maxRetries)]
    /\ UNCHANGED apiInput

\* One call of pollPrediction, from entry until its promise settles
CallPollPrediction ==
    /\ Only("replicate")
    /\ apiInput.fn = "pollPrediction"
    /\ ~apiResult.done
    /\ apiResult' = [done |-> TRUE, result |-> pollPrediction(apiInput.polls)]
    /\ UNCHANGED apiInput

NextReplicate ==
    \/ CallFetchWithRetry
    \/ CallPollPrediction

SpecReplicate == InitReplicate /\ [][NextReplicate]_vars

\* C33: fetchWithRetry makes at most maxRetries attempts; it returns the
\* response of the first attempt that got a response other than 429, makes
\* no attempt after it and never returns a 429 response; it throws exactly
\* when every attempt was rate-limited or failed, and then the last network
\* error, or 'Max retries exceeded' when there was none.
C33_RetryBounded ==
    (apiResult.done /\ apiInput.fn = "fetchWithRetry") =>
        LET r == apiResult.result
            o == apiInput.outcomes
            n == apiInput.maxRetries
            answered == {k \in 1..n : o[k] \in {"ok", "notOk"}}
            failed == {k \in 1..n : o[k] \in {"throws", "rateLimitedOddBody"}}
        IN  /\ r.attempts <= n
            /\ r.threw <=> answered = {}
            /\ ~r.threw =>
                  /\ r.attempts \in answered
                  /\ \A k \in answered : r.attempts <= k
                  /\ r.response = o[r.attempts]
                  /\ r.response \notin {"rateLimited", "rateLimitedOddBody"}
            /\ r.threw =>
                  /\ r.attempts = n
                  /\ r.error.message = IF failed = {} THEN "Max retries exceeded"
                                       ELSE "Network error"
                  /\ failed # {} =>
                        r.error.attempt \in failed /\ \A k \in failed : k <= r.error.attempt

\* A call that met a network error, then a 429, then a response
C33_Witness ==
    /\ apiResult.done
    /\ apiInput.fn = "fetchWithRetry"
    /\ apiInput.maxRetries = 3
    /\ apiInput.outcomes = <<"throws", "rateLimited", "notOk">>
    /\ apiResult.result.attempts = 3
    /\ ~apiResult.result.threw

\* C34: pollPrediction makes at most 60 polls; it returns only a prediction
\* whose status is 'succeeded', throws at the first poll that reports
\* 'failed' or 'canceled', a response that is not OK or a failed request,
\* and throws the timeout error when 60 polls in a row report 'starting' or
\* 'processing'.
C34_PollBounded ==
    (apiResult.done /\ apiInput.fn = "pollPrediction") =>
        LET r == apiResult.result
            p == apiInput.polls
            final == {k \in 1..maxAttempts : p[k] \notin {"starting", "processing"}}
        IN  /\ r.polls <= maxAttempts
            /\ ~r.threw => r.status = "succeeded" /\ p[r.polls] = "succeeded"
            /\ final # {} =>
                  /\ r.polls \in final
                  /\ \A k \in final : r.polls <= k
                  /\ r.threw <=> p[r.polls] # "succeeded"
                  /\ r.error # "Generation timed out. Please try again."
            /\ final = {} =>
                  /\ r.threw
                  /\ r.polls = maxAttempts
                  /\ r.error = "Generation timed out. Please try again."

\* A prediction that succeeded at the 60th poll
C34_Witness ==
    /\ apiResult.done
    /\ apiInput.fn = "pollPrediction"
    /\ apiResult.result.polls = maxAttempts
    /\ ~apiResult.result.threw
    /\ apiInput.polls[1] = "starting"
    /\ apiInput.polls[maxAttempts - 1] = "processing"

----------------------------------------------------------------------------
(* The 3D viewer: GodotViewer and the messages it exchanges with the Godot *)
(* engine in its iframe.                                                   *)

\* The godot_progress messages: data.progress in percent, or none
ProgressMessages ==
    {[type |-> "godot_progress"]}
        \cup {[type |-> "godot_progress", progress |-> p] : p \in {0, 50, 100}}

\* The value the progress simulation of handleIframeLoad ends with
SimulatedProgress == {90}

\* 10 + Math.round(data.progress * 85)
MappedProgress(percent) == 10 + (percent * 85 + 50) \div 100

SetTextureMessage == [type |-> "set_texture", modelId |-> Null]

LoadSceneMessage(model) == [type |-> "load_scene", modelId |-> model]

TexturePosted_IgnoresReady(godotReady, mounted, outcome) ==
    IF ~mounted \/ outcome = "throws" THEN <<>> ELSE <<SetTextureMessage>>

\* sendTextureToGodot() of the render that saw godotReady: the message it
\* posts, none when there is no stage, the engine is not ready or the capture
\* throws
TexturePosted(godotReady, mounted, outcome) ==
    IF ~mounted \/ ~godotReady \/ outcome = "throws" THEN <<>>
    ELSE <<SetTextureMessage>>

ModelChangeEffect_NoRefCheck(v) ==
    IF ~v.godotReady \/ ~v.isOpen THEN [viewer |-> v, posted |-> <<>>]
    ELSE [viewer |-> [v EXCEPT !.lastLoadedModelRef = v.currentModel],
          posted |-> <<LoadSceneMessage(v.currentModel)>>]

\* The model change effect: the viewer after it and the message it posts
ModelChangeEffect(v) ==
    IF ~v.godotReady \/ ~v.isOpen \/ v.lastLoadedModelRef = v.currentModel
    THEN [viewer |-> v, posted |-> <<>>]
    ELSE [viewer |-> [v EXCEPT !.lastLoadedModelRef = v.currentModel],
          posted |-> <<LoadSceneMessage(v.currentModel)>>]

\* The reopen effect: its cleanup clears the timer of the last run, and it
\* starts one when the viewer is open, the engine ready and the iframe loaded
ReopenEffect(v) ==
    [v EXCEPT !.reopenTimer = v.isOpen /\ v.godotReady /\ v.iframeEverLoaded]

\* A render commits v and React runs the effects whose dependencies changed;
\* the iframe is always mounted, so sendToGodot posts
Commit(v, reopenDeps) ==
    LET after == ModelChangeEffect(IF reopenDeps THEN ReopenEffect(v) ELSE v)
    IN  /\ Len(toGodot) + Len(after.posted) <= MaxSent
        /\ viewer' = after.viewer
        /\ toGodot' = toGodot \o after.posted

InitViewer ==
    /\ \E isOpen \in BOOLEAN : \E model \in Models : \E mounted \in BOOLEAN :
          viewer = ViewerAtMount(isOpen, model, mounted)
    /\ toGodot = <<>>
    /\ Idle("viewer")

\* The parent opens the viewer
OpenViewer ==
    /\ Only("viewer")
    /\ ~viewer.isOpen
    /\ Commit([viewer EXCEPT !.isOpen = TRUE], TRUE)

\* onClose(): the close button or Escape; the parent closes the viewer
CloseViewer ==
    /\ Only("viewer")
    /\ viewer.isOpen
    /\ Commit([viewer EXCEPT !.isOpen = FALSE], TRUE)

\* The store's currentModelId changes
ChangeModel(model) ==
    /\ Only("viewer")
    /\ model # viewer.currentModel
    /\ Commit([viewer EXCEPT !.currentModel = model], FALSE)

\* handleIframeLoad
handleIframeLoad ==
    /\ Only("viewer")
    /\ ~viewer.iframeEverLoaded
    /\ Commit([viewer EXCEPT !.iframeEverLoaded = TRUE, !.loadingProgress = 10], TRUE)

\* One tick of the progress simulation handleIframeLoad started
ProgressTick(percent) ==
    /\ Only("viewer")
    /\ viewer.iframeEverLoaded
    /\ ~viewer.godotReadyRef
    /\ Commit([viewer EXCEPT !.loadingProgress = percent], FALSE)

\* handleMessage, case 'godot_ready'
ReceiveGodotReady ==
    /\ Only("viewer")
    /\ viewer.received < MaxReady
    /\ IF viewer.godotReadyRef
       THEN Commit([viewer EXCEPT !.received = @ + 1], FALSE)
       ELSE Commit([viewer EXCEPT !.received = @ + 1, !.handled = @ + 1,
                                  !.godotReadyRef = TRUE, !.loadingProgress = 100,
                                  !.readyTimer = TRUE], FALSE)

\* The timer case 'godot_ready' started
ReadyTimerFires ==
    /\ Only("viewer")
    /\ viewer.readyTimer
    /\ Commit([viewer EXCEPT !.readyTimer = FALSE, !.godotReady = TRUE,
                             !.loading = FALSE], TRUE)

\* handleMessage, case 'godot_progress'
ReceiveGodotProgress(data) ==
    /\ Only("viewer")
    /\ IF "progress" \in DOMAIN data /\ ~viewer.godotReadyRef
       THEN Commit([viewer EXCEPT !.loadingProgress = MappedProgress(data.progress)],
                   FALSE)
       ELSE UNCHANGED <<viewer, toGodot>>

\* handleMessage, case 'car_loaded': the timer calls the sendTextureToGodot of
\* the render the listener was registered in
ReceiveCarLoaded ==
    /\ Only("viewer")
    /\ Len(viewer.textureTimers) < MaxTimers
    /\ Commit([viewer EXCEPT !.textureTimers = Append(@, viewer.godotReady)], FALSE)

\* handleMessage, case 'godot_error'
ReceiveGodotError ==
    /\ Only("viewer")
    /\ ~viewer.error
    /\ Commit([viewer EXCEPT !.error = TRUE, !.loading = FALSE], FALSE)

\* The oldest timer of case 'car_loaded' fires
TextureTimerFires(outcome) ==
    /\ Only("viewer")
    /\ viewer.textureTimers # <<>>
    /\ LET posts == TexturePosted(Head(viewer.textureTimers), viewer.stageMounted, outcome)
       IN  /\ Len(toGodot) + Len(posts) <= MaxSent
           /\ toGodot' = toGodot \o posts
    /\ viewer' = [viewer EXCEPT !.textureTimers = Tail(@)]

\* The timer of the reopen effect fires
ReopenTimerFires(outcome) ==
    /\ Only("viewer")
    /\ viewer.reopenTimer
    /\ LET posts == TexturePosted(viewer.godotReady, viewer.stageMounted, outcome)
       IN  /\ Len(toGodot) + Len(posts) <= MaxSent
           /\ toGodot' = toGodot \o posts
    /\ viewer' = [viewer EXCEPT !.reopenTimer = FALSE]

NextViewer ==
    \/ OpenViewer
    \/ CloseViewer
    \/ \E model \in Models : ChangeModel(model)
    \/ handleIframeLoad
    \/ \E percent \in SimulatedProgress : ProgressTick(percent)
    \/ ReceiveGodotReady
    \/ ReadyTimerFires
    \/ \E data \in ProgressMessages : ReceiveGodotProgress(data)
    \/ ReceiveCarLoaded
    \/ ReceiveGodotError
    \/ \E outcome \in {"dataUrl", "throws"} : TextureTimerFires(outcome)
    \/ \E outcome \in {"dataUrl", "throws"} : ReopenTimerFires(outcome)

SpecViewer == InitViewer /\ [][NextViewer]_vars

\* C36: no set_texture or load_scene message is posted to the viewer before a
\* godot_ready message was received from it; godot_ready is handled at most
\* once; and once it was handled, a godot_progress message leaves the loading
\* progress as it is.
C36_NothingBeforeReady ==
    /\ [](toGodot # <<>> => viewer.received > 0)
    /\ [](viewer.handled <= 1)
    /\ [][\A data \in ProgressMessages :
            (ReceiveGodotProgress(data) /\ viewer.handled > 0)
                => viewer'.loadingProgress = viewer.loadingProgress]_vars

\* A texture was posted after the engine had reported ready twice and a
\* car_loaded had arrived before the first report
C36_Witness ==
    /\ viewer.received = 2
    /\ viewer.handled = 1
    /\ Len(toGodot) >= 2
    /\ toGodot[1].type = "load_scene"
    /\ toGodot[2].type = "set_texture"
    /\ viewer.loadingProgress = 100

\* The load_scene messages posted so far
SceneLoads == SelectSeq(toGodot, LAMBDA m : m.type = "load_scene")

\* C37: no two load_scene messages in a row name the same model; and whenever
\* the viewer is open and the engine ready, the model last asked for is the
\* current model: a render that finds another model last loaded posts a
\* load_scene for the current one, also when the model changed while the
\* viewer was closed.
C37_NoDuplicateLoads ==
    /\ [](\A i \in 1..(Len(SceneLoads) - 1) :
             SceneLoads[i].modelId # SceneLoads[i + 1].modelId)
    /\ []((viewer.godotReady /\ viewer.isOpen) =>
             /\ viewer.lastLoadedModelRef = viewer.currentModel
             /\ SceneLoads # <<>>
             /\ SceneLoads[Len(SceneLoads)].modelId = viewer.currentModel)
    /\ [][(viewer'.godotReady /\ viewer'.isOpen
              /\ viewer.lastLoadedModelRef # viewer'.currentModel)
            => toGodot' = Append(toGodot, LoadSceneMessage(viewer'.currentModel))]_vars

\* Two models were loaded, the second after a model change
C37_Witness ==
    /\ viewer.godotReady
    /\ viewer.isOpen
    /\ Len(SceneLoads) = 2
    /\ viewer.lastLoadedModelRef = "cybertruck"
    /\ SceneLoads[1].modelId = "modely"

----------------------------------------------------------------------------
(* localStorageProject.ts: the unsaved project kept in localStorage.       *)

\* The projects handed to saveProjectToLocalStorage
StoredProjects ==
    {[version |-> "2.0", modelId |-> "modely", hasLayers |-> TRUE, layers |-> <<"layer-1">>],
     [version |-> "2.0", modelId |-> "model3", hasLayers |-> TRUE, layers |-> <<>>],
     [version |-> "", modelId |-> "modely", hasLayers |-> TRUE, layers |-> <<"layer-1">>],
     [version |-> "2.0", modelId |-> "", hasLayers |-> TRUE, layers |-> <<"layer-1">>],
     [version |-> "2.0", modelId |-> "modely", hasLayers |-> FALSE, layers |-> <<>>]}

\* What another writer may have left under the key
ForeignItems ==
    {NoItem} \cup {[kind |-> k, keys |-> {}, value |-> UndefinedProject] :
                      k \in {"empty", "garbage", "null"}}

\* JSON.stringify(project): a key whose value is undefined is left out
Stringify(p) ==
    [kind |-> "object",
     keys |-> {"version", "modelId"} \cup (IF p.hasLayers THEN {"layers"} ELSE {}),
     value |-> [p EXCEPT !.hasLayers = FALSE,
                         !.layers = IF p.hasLayers THEN p.layers ELSE <<>>]]

\* JSON.parse(stored) of the text of an object: a key that is left out reads
\* as undefined
Parse(item) ==
    [version |-> IF "version" \in item.keys THEN item.value.version ELSE "",
     modelId |-> IF "modelId" \in item.keys THEN item.value.modelId ELSE "",
     hasLayers |-> "layers" \in item.keys,
     layers |-> IF "layers" \in item.keys THEN item.value.layers ELSE <<>>]

Validates_IgnoresModelId(p) == p.version # "" /\ p.hasLayers

\* The validation: !project.version || !project.layers || !project.modelId
\* is false; an empty array is not falsy
Validates(p) == p.version # "" /\ p.hasLayers /\ p.modelId # ""

NullResult == [isNull |-> TRUE, project |-> UndefinedProject]

\* What loadProjectFromLocalStorage returns when getItem returned item:
\* JSON.parse throws on a string that is not JSON and project.version throws
\* on null; both are caught
LoadResult(item) ==
    IF item.kind \in {"none", "empty", "garbage", "null"} THEN NullResult
    ELSE IF ~Validates(Parse(item)) THEN NullResult
    ELSE [isNull |-> FALSE, project |-> Parse(item)]

\* What a call of the storage does: it works, or it throws (the quota is
\* exceeded, the storage is not available)
StorageOutcomes == {"ok", "throws"}

StorageCall(fn, p, outcome, result) ==
    [fn |-> fn, project |-> p, outcome |-> outcome, threw |-> FALSE, result |-> result]

InitStorage ==
    /\ localStorage \in ForeignItems
    /\ storageCalls = <<>>
    /\ Idle("storage")

saveProjectToLocalStorage(p, outcome) ==
    /\ Only("storage")
    /\ Len(storageCalls) < MaxStorageCalls
    /\ localStorage' = IF outcome = "ok" THEN Stringify(p) ELSE localStorage
    /\ storageCalls' = Append(storageCalls, StorageCall("save", p, outcome, NullResult))

loadProjectFromLocalStorage(outcome) ==
    /\ Only("storage")
    /\ Len(storageCalls) < MaxStorageCalls
    /\ storageCalls' = Append(storageCalls,
            StorageCall("load", UndefinedProject, outcome,
                        IF outcome = "ok" THEN LoadResult(localStorage) ELSE NullResult))
    /\ UNCHANGED localStorage

clearSavedProject(outcome) ==
    /\ Only("storage")
    /\ Len(storageCalls) < MaxStorageCalls
    /\ localStorage' = IF outcome = "ok" THEN NoItem ELSE localStorage
    /\ storageCalls' = Append(storageCalls,
            StorageCall("clear", UndefinedProject, outcome, NullResult))

NextStorage ==
    \/ \E p \in StoredProjects, outcome \in StorageOutcomes :
          saveProjectToLocalStorage(p, outcome)
    \/ \E outcome \in StorageOutcomes : loadProjectFromLocalStorage(outcome)
    \/ \E outcome \in StorageOutcomes : clearSavedProject(outcome)

SpecStorage == InitStorage /\ [][NextStorage]_vars

\* The last call before call k that is a save or a clear and satisfies Counts;
\* 0 when there is none
LastWrite(k, Counts(_)) ==
    LET writes == {j \in 1..(k - 1) :
                      storageCalls[j].fn \in {"save", "clear"} /\ Counts(storageCalls[j])}
    IN  IF writes = {} THEN 0 ELSE CHOOSE j \in writes : \A i \in writes : i <= j

\* The same project, a key that is undefined and a key that is left out
\* taken as the same
SameProject(p, q) ==
    /\ p.version = q.version
    /\ p.modelId = q.modelId
    /\ p.hasLayers = q.hasLayers
    /\ p.hasLayers => p.layers = q.layers

\* Every load returned what the write w(k) before it determines: the project
\* of that save when Accepts holds of it, null otherwise; and no call threw
LoadsFollow(w(_), Accepts(_)) ==
    \A k \in 1..Len(storageCalls) :
        /\ ~storageCalls[k].threw
        /\ (storageCalls[k].fn = "load" /\ storageCalls[k].outcome = "ok") =>
              LET r == storageCalls[k].result
                  j == w(k)
              IN  IF j # 0 /\ storageCalls[j].fn = "save" /\ Accepts(storageCalls[j].project)
                  THEN ~r.isNull /\ SameProject(r.project, storageCalls[j].project)
                  ELSE r.isNull
        /\ (storageCalls[k].fn = "load" /\ storageCalls[k].outcome = "throws") =>
              storageCalls[k].result.isNull

\* C38 as stated: a load returns the project of the most recent save when no
\* clear followed it and the project has a non-empty version, layers and
\* modelId, and null otherwise; no call throws.
C38_LoadReturnsLastSave ==
    LoadsFollow(LAMBDA k : LastWrite(k, LAMBDA c : TRUE),
                LAMBDA p : /\ p.version # "" /\ p.modelId # ""
                           /\ p.hasLayers /\ p.layers # <<>>)

\* C38: a load returns the project of the most recent save that the storage
\* accepted when no clear that the storage accepted followed it and the
\* project has a non-empty version, a non-empty modelId and a layers value (an
\* empty list included); it returns null otherwise, also when reading the
\* storage fails; no call throws.
C38_LoadReturnsLastStored ==
    LoadsFollow(LAMBDA k : LastWrite(k, LAMBDA c : c.outcome = "ok"),
                LAMBDA p : p.version # "" /\ p.modelId # "" /\ p.hasLayers)

\* A save was stored, the next save failed, and the load returned the first
C38_Witness ==
    /\ Len(storageCalls) = 3
    /\ storageCalls[1].fn = "save" /\ storageCalls[1].outcome = "ok"
    /\ storageCalls[2].fn = "save" /\ storageCalls[2].outcome = "throws"
    /\ storageCalls[2].project # storageCalls[1].project
    /\ storageCalls[3].fn = "load" /\ storageCalls[3].outcome = "ok"
    /\ ~storageCalls[3].result.isNull

====
